---- MODULE Spec2Model ----
(***************************************************************************)
(* Verification model of source-deploy-retrieve:                           *)
(*   - OrgOperation.pollStatus, the poll loop of a deploy / retrieve       *)
(*     operation (specification Spec),                                     *)
(*   - ComponentSet, the lazy de-duplicating collection (SpecSet),         *)
(*   - MetadataResolver.resolveSource feeding a ComponentSet               *)
(*     (SpecResolve, SpecResolveTwice),                                    *)
(*   - manifests read into and written from a ComponentSet (SpecManifest,  *)
(*     SpecPackage),                                                       *)
(*   - DeployResult.getFileResponses (SpecDeployResult),                   *)
(*   - SourceComponent.fullName (SpecFullName),                            *)
(*   - DefaultMetadataTransformer (SpecTransformer),                       *)
(*   - convertSource with SimpleTransformer (SpecConvert),                 *)
(*   - GitFileContainer and BaseFileContainer.find (SpecGit),              *)
(*   - MaxRevision, the revision tracker, and its getInstance              *)
(*     (SpecMaxRevision, SpecGetInstance),                                 *)
(*   - MetadataResolver and SourceComponent.getChildren called on one      *)
(*     path or component (SpecProbe).                                      *)
(* Strings that the code concatenates and splits are modelled as sequences *)
(* of tokens (a token is a piece of text without a delimiter in it).       *)
(***************************************************************************)
EXTENDS Integers, Sequences, FiniteSets, TLC

\* ---- OrgOperation (src/unnamed/part_005:639-704)
VARIABLES
  kind,          \* "deploy" (DeployOperation) or "retrieve" (RetrieveOperation)
  pc,            \* position of pollStatus
  shouldCancel,  \* OrgOperation.shouldCancel
  result,        \* the local `result` of pollStatus
  triedOnce,     \* the local `triedOnce` of pollStatus
  events,        \* events emitted so far, in order
  checks,        \* number of checkStatus calls issued
  error,         \* the error pollStatus rejected with, "none" while it has not
  cancelUpd,     \* history: number of updates emitted when cancel() was first called, -1 before
  cancelSync,    \* history: the first cancel() came from an update listener
  failedChecks   \* history: number of checkStatus calls that were rejected

tvars == <<kind, pc, shouldCancel, result, triedOnce, events, checks, error,
           cancelUpd, cancelSync, failedChecks>>

  \* ---- ComponentSet (src/unnamed/part_005:263-610)
VARIABLES
  components,    \* ComponentSet.components: ordered map key -> (ordered map sourceKey -> component)
  flush,         \* ComponentSet.flush: what the seed iterator has still to produce
  added,         \* history: every component handed to add(), in order
  eager,         \* history: the index the set would have had every seed element been added at construction
  nAdds,         \* history: number of add() calls of the application
  iter,          \* the iterator the application holds open on the set: where its generator is suspended
  obs            \* history: the last operation, its argument and what it returned

svars == <<components, flush, added, eager, nAdds, iter, obs>>

  \* ---- MetadataResolver (src/src/metadata-registry/metadataResolver.ts:45-258)
  \*      and ComponentSet.resolveSourceComponents (src/unnamed/part_005:444-462)
VARIABLES
  givenPaths,    \* the paths the application resolves
  ignoreRoots,   \* the paths the patterns of the ignore file match
  treeHasBad,    \* the tree holds a metadata xml of an unregistered suffix
  target,        \* the index (components) of the ComponentSet that receives the results
  targetBefore,  \* history: that index before the last call
  delivered,     \* the components the last call handed to its caller, in order
  rerror,        \* the error the last call threw, "none" when it returned
  rcall,         \* history: the last call and the path it was given
  nCalls,        \* history: number of calls made
  usedFilter,    \* history: the filter the last call was given
  once,          \* what the caller reads of the set of resolveSource([p])
  twice          \* what the caller reads of the set of resolveSource([p, p])

rvars == <<givenPaths, ignoreRoots, treeHasBad, target, targetBefore, delivered, rerror,
           rcall, nCalls, usedFilter, once, twice>>

  \* ---- manifests: ComponentSet.fromManifestFile, getObject, getPackageXml
  \*      (src/unnamed/part_005:305-366, 408-478) and ManifestResolver.resolve
  \*      (src/src/resolve/manifestResolver.ts:39-65)
VARIABLES
  manifest,      \* the types elements of the manifest file, in document order
  resolveOpt,    \* FromManifestOptions.resolve
  literalWildcard, \* FromManifestOptions.literalWildcard
  members,       \* the components a set is constructed on
  ws,            \* the index of the set fromManifestFile returns
  wsError,       \* the error fromManifestFile rejected with, "none" otherwise
  pkg,           \* Package.types of what getObject returned
  resolvedMembers, \* the components ManifestResolver.resolve returned for getPackageXml()
  mcall          \* history: the last operation

mvars == <<manifest, resolveOpt, literalWildcard, members, ws, wsError, pkg, resolvedMembers,
           mcall>>

  \* ---- DeployResult (src/src/client/metadataApiDeploy.ts:20-156)
VARIABLES
  deployed,           \* DeployResult.components: the index of the deployed set
  componentFailures,  \* response.details.componentFailures, as an array
  componentSuccesses, \* response.details.componentSuccesses, as an array
  fileResponses,      \* what getFileResponses returned
  responded,          \* history: getFileResponses was called
  reported            \* history: the failures and successes as the api reported them

dvars == <<deployed, componentFailures, componentSuccesses, fileResponses, responded,
           reported>>

  \* ---- SourceComponent.fullName (src/unnamed/part_000:186-188 and
  \*      src/src/metadata-registry/metadataResolver.ts:472-475)
VARIABLES
  componentClass, \* which of the two SourceComponent classes of the source is built
  namesSeen       \* history: the components read and the fullName each returned

nvars == <<componentClass, namesSeen>>

  \* ---- DefaultMetadataTransformer (src/unnamed/part_004:22-92)
VARIABLES
  original,      \* the component of the workspace a conversion may merge with
  converting,    \* the component the next conversion is given
  writerFormats  \* history: each conversion made and the WriterFormat it returned

xvars == <<original, converting, writerFormats>>

  \* ---- convertSource (src/src/convert/index.ts:13-27) and
  \*      SimpleTransformer.toApiFormat (src/unnamed/part_003:16-39)
VARIABLES
  toConvert,      \* the argument sourceFormat
  position,       \* the index of the component the loop is at, 0 before the call
  copyJobs,       \* the copy jobs of the transformer calls made
  destFiles,      \* the files under the destination and what each holds
  metadataFormat, \* the local metadataFormat
  convertOutcome  \* "none", "pending", "resolved" or "rejected"

wvars == <<toConvert, position, copyJobs, destFiles, metadataFormat, convertOutcome>>

  \* ---- GitFileContainer and BaseFileContainer
  \*      (src/src/metadata-registry/fileContainers.ts:20-70, 98-188)
VARIABLES
  listing,       \* the blobs the recursive listing reports, in its order
  gitTree,       \* GitFileContainer.tree: ordered map directory -> its entries, in insertion order
  gitReady,      \* an initialize has settled and none has started since
  fetching,      \* the number of initialize calls awaiting fetchGithubTree
  asked          \* history: the last operation, its arguments and its outcome

gvars == <<listing, gitTree, gitReady, fetching, asked>>

  \* ---- MaxRevision, one instance (src/src/cli-sdd/source/MaxRevision.ts:94-304)
VARIABLES
  contents,      \* the contents of the config file: serverMaxRevisionCounter and sourceMembers
  revCalls,      \* history: number of calls made on the instance
  lastCall,      \* history: the last call, its argument and the counter before it
  changedSeen    \* what the last getChangedElements returned, or the error it threw

kvars == <<contents, revCalls, lastCall, changedSeen>>

  \* ---- MaxRevision.getInstance (src/src/cli-sdd/source/MaxRevision.ts:73-88)
VARIABLES
  maxRevision,   \* the static dictionary username -> instance, 0 for no entry
  nCreated,      \* number of instances MaxRevision.create has made
  createdFor,    \* history: the username each instance was created for
  getCalls       \* the getInstance calls: username, position, instance created, instance returned

ivars == <<maxRevision, nCreated, createdFor, getCalls>>

  \* ---- MetadataResolver and SourceComponent called on one path or component
VARIABLES
  probed         \* history: the last call, its arguments and what it returned

pvars == <<probed>>

vars == <<tvars, svars, rvars, mvars, dvars, nvars, xvars, wvars, gvars, kvars, ivars,
          pvars>>

----------------------------------------------------------------------------
(* Bounds *)
MaxPolls == 3

----------------------------------------------------------------------------
(* OrgOperation: the poll loop                                             *)

Statuses == {"Pending", "InProgress", "Succeeded", "Failed", "Canceled"}

TerminalStatuses == {"Succeeded", "Failed", "Canceled"}

\* What checkDeployStatus / checkRetrieveStatus resolve with: the status and
\* the success flag are what the remote reports
Responses == [status : Statuses, success : BOOLEAN]

\* `let result: MetadataRequestResult;` before the first assignment
NoResult == [status |-> "undefined", success |-> FALSE]

\* doCancel is async in both subclasses: the call returns a promise.
doCancel(k) ==
  IF k = "deploy"
    THEN [isPromise |-> TRUE, resolvesTo |-> FALSE]
    ELSE [isPromise |-> TRUE, resolvesTo |-> TRUE]

\* `if (shouldBreak)` on the value doCancel() returned, which is not awaited:
\* an object is truthy whatever it resolves to.
Truthy(v) == IF v.isPromise THEN TRUE ELSE v.resolvesTo

\* `result.status = RequestStatus.Canceled; this.emit('finish', result)`
CancelPayload(r) ==
  [type |-> "finish", status |-> "Canceled", success |-> r.success, formatted |-> FALSE]

\* `this.emit('finish', this.formatResult(result))` of a DeployOperation
FinishPayload(r) ==
  [type |-> "finish", status |-> r.status, success |-> r.success, formatted |-> TRUE]

\* `this.emit('update', result)`
UpdatePayload(r) ==
  [type |-> "update", status |-> r.status, success |-> r.success, formatted |-> FALSE]

NumEvents(t) == Cardinality({i \in 1..Len(events) : events[i].type = t})

InitTransfer ==
  /\ kind \in {"deploy", "retrieve"}
  /\ pc = "idle"
  /\ shouldCancel = FALSE
  /\ result = NoResult
  /\ triedOnce = FALSE
  /\ events = <<>>
  /\ checks = 0
  /\ error = "none"
  /\ cancelUpd = -1
  /\ cancelSync = FALSE
  /\ failedChecks = 0

\* startPolling(): calls pollStatus, which runs synchronously to its first await
StartPolling ==
  /\ pc = "idle"
  /\ pc' = "top"
  /\ UNCHANGED <<kind, shouldCancel, result, triedOnce, events, checks, error,
                 cancelUpd, cancelSync, failedChecks>>
  /\ UNCHANGED <<svars, rvars, mvars, dvars, nvars, xvars, wvars, gvars, kvars, ivars, pvars>>

\* cancel(), called by the application while pollStatus is suspended (or
\* before it started, or after it ended); cancelUpd records the first call
\* made before the loop ended
Cancel ==
  /\ pc \in {"idle", "waiting", "checking", "done", "rejected"}
  /\ shouldCancel' = TRUE
  /\ cancelUpd' = IF cancelUpd = -1 /\ pc \notin {"done", "rejected"}
                    THEN NumEvents("update") ELSE cancelUpd
  /\ UNCHANGED <<kind, pc, result, triedOnce, events, checks, error, cancelSync,
                 failedChecks>>
  /\ UNCHANGED <<svars, rvars, mvars, dvars, nvars, xvars, wvars, gvars, kvars, ivars, pvars>>

\* the head of the while loop: the shouldCancel test, then either the wait or,
\* on the first round, the checkStatus call
LoopHead ==
  /\ pc = "top"
  /\ IF shouldCancel /\ Truthy(doCancel(kind))
       THEN IF result = NoResult
              THEN \* result is undefined: the assignment throws a TypeError
                   /\ pc' = "rejected"
                   /\ error' = "TypeError"
                   /\ UNCHANGED <<events, checks>>
              ELSE /\ events' = Append(events, CancelPayload(result))
                   /\ pc' = "done"
                   /\ UNCHANGED <<error, checks>>
       ELSE /\ checks < MaxPolls
            /\ IF triedOnce
                 THEN pc' = "waiting" /\ checks' = checks
                 ELSE pc' = "checking" /\ checks' = checks + 1
            /\ UNCHANGED <<events, error>>
  /\ UNCHANGED <<kind, shouldCancel, result, triedOnce, cancelUpd, cancelSync,
                 failedChecks>>
  /\ UNCHANGED <<svars, rvars, mvars, dvars, nvars, xvars, wvars, gvars, kvars, ivars, pvars>>

\* `await wait(interval)` is over: checkStatus is called
WaitDone ==
  /\ pc = "waiting"
  /\ pc' = "checking"
  /\ checks' = checks + 1
  /\ UNCHANGED <<kind, shouldCancel, result, triedOnce, events, error,
                 cancelUpd, cancelSync, failedChecks>>
  /\ UNCHANGED <<svars, rvars, mvars, dvars, nvars, xvars, wvars, gvars, kvars, ivars, pvars>>

\* checkStatus resolved with r; an update listener may call cancel()
CheckStatusReturns(r, listenerCancels) ==
  /\ pc = "checking"
  /\ result' = r
  /\ IF r.status \in TerminalStatuses
       THEN /\ IF kind = "deploy"
                 THEN /\ events' = Append(events, FinishPayload(r))
                      /\ pc' = "done"
                      /\ UNCHANGED error
                 ELSE \* RetrieveOperation.formatResult throws inside the try
                      /\ pc' = "rejected"
                      /\ error' = "md_request_fail"
                      /\ UNCHANGED events
            /\ UNCHANGED <<triedOnce, shouldCancel, cancelUpd, cancelSync>>
       ELSE /\ events' = Append(events, UpdatePayload(r))
            /\ triedOnce' = TRUE
            /\ pc' = "top"
            /\ shouldCancel' = (shouldCancel \/ listenerCancels)
            /\ cancelUpd' = IF listenerCancels /\ cancelUpd = -1
                              THEN NumEvents("update") + 1 ELSE cancelUpd
            /\ cancelSync' = IF listenerCancels /\ cancelUpd = -1
                               THEN TRUE ELSE cancelSync
            /\ UNCHANGED error
  /\ UNCHANGED <<kind, checks, failedChecks>>
  /\ UNCHANGED <<svars, rvars, mvars, dvars, nvars, xvars, wvars, gvars, kvars, ivars, pvars>>

\* checkStatus rejected: `catch (e) { throw new DeployError('md_request_fail', e) }`
CheckStatusFailsRetry ==
  /\ pc = "checking"
  /\ pc' = "top"
  /\ failedChecks' = failedChecks + 1
  /\ UNCHANGED <<kind, shouldCancel, result, triedOnce, events, checks, error,
                 cancelUpd, cancelSync>>
  /\ UNCHANGED <<svars, rvars, mvars, dvars, nvars, xvars, wvars, gvars, kvars, ivars, pvars>>

CheckStatusFails ==
  /\ pc = "checking"
  /\ pc' = "rejected"
  /\ error' = "md_request_fail"
  /\ failedChecks' = failedChecks + 1
  /\ UNCHANGED <<kind, shouldCancel, result, triedOnce, events, checks,
                 cancelUpd, cancelSync>>
  /\ UNCHANGED <<svars, rvars, mvars, dvars, nvars, xvars, wvars, gvars, kvars, ivars, pvars>>

----------------------------------------------------------------------------
(* Text: a string is a sequence of tokens; a path is a sequence of names  *)
(* (its segments), a name being a string.                                  *)

SEP == "/"

RECURSIVE JoinWith(_, _)
\* segments.join(d)
JoinWith(segs, d) ==
  IF segs = <<>> THEN <<>>
  ELSE IF Len(segs) = 1 THEN segs[1]
  ELSE segs[1] \o <<d>> \o JoinWith(Tail(segs), d)

RECURSIVE SplitOn(_, _)
\* text.split(d): the pieces between the delimiter tokens
SplitOn(text, d) ==
  IF \A i \in 1..Len(text) : text[i] # d THEN <<text>>
  ELSE LET i == CHOOSE j \in 1..Len(text) :
                  text[j] = d /\ \A k \in 1..(j - 1) : text[k] # d
       IN <<SubSeq(text, 1, i - 1)>> \o SplitOn(SubSeq(text, i + 1, Len(text)), d)

\* the text of a path
PathText(p) == JoinWith(p, SEP)

----------------------------------------------------------------------------
(* Registry                                                                *)

NoType ==
  [id |-> "", name |-> "", directoryName |-> "", suffix |-> "",
   inFolder |-> FALSE, strictDirectoryName |-> FALSE, children |-> <<>>,
   adapter |-> "",
   folderType |-> "", folderContentType |-> ""]

CustomField ==
  [id |-> "customfield", name |-> "CustomField", directoryName |-> "fields",
   suffix |-> "field", inFolder |-> FALSE, strictDirectoryName |-> FALSE,
   children |-> <<>>, adapter |-> "",
   folderType |-> "", folderContentType |-> ""]

CustomObject ==
  [id |-> "customobject", name |-> "CustomObject", directoryName |-> "objects",
   suffix |-> "object", inFolder |-> FALSE, strictDirectoryName |-> TRUE,
   children |-> <<CustomField>>, adapter |-> "decomposed",
   folderType |-> "", folderContentType |-> ""]

ApexClass ==
  [id |-> "apexclass", name |-> "ApexClass", directoryName |-> "classes",
   suffix |-> "cls", inFolder |-> FALSE, strictDirectoryName |-> FALSE,
   children |-> <<>>, adapter |-> "matchingContentFile",
   folderType |-> "", folderContentType |-> ""]

LightningComponentBundle ==
  [id |-> "lightningcomponentbundle", name |-> "LightningComponentBundle",
   directoryName |-> "lwc", suffix |-> "", inFolder |-> FALSE,
   strictDirectoryName |-> TRUE, children |-> <<>>, adapter |-> "bundle",
   folderType |-> "", folderContentType |-> ""]

\* a type of a custom registry (the registry is a constructor argument of
\* ComponentSet and MetadataResolver) whose id is not its lowercased name
Widget ==
  [id |-> "widget2", name |-> "Widget", directoryName |-> "widgets",
   suffix |-> "widget", inFolder |-> FALSE, strictDirectoryName |-> FALSE,
   children |-> <<>>, adapter |-> "",
   folderType |-> "", folderContentType |-> ""]

StaticResource ==
  [id |-> "staticresource", name |-> "StaticResource",
   directoryName |-> "staticresources", suffix |-> "resource",
   inFolder |-> FALSE, strictDirectoryName |-> FALSE, children |-> <<>>,
   adapter |-> "mixedContent",
   folderType |-> "", folderContentType |-> ""]

\* a type in folders and the type of its folders
Report ==
  [id |-> "report", name |-> "Report", directoryName |-> "reports",
   suffix |-> "report", inFolder |-> TRUE, strictDirectoryName |-> FALSE,
   children |-> <<>>, adapter |-> "",
   folderType |-> "reportfolder", folderContentType |-> ""]

ReportFolder ==
  [id |-> "reportfolder", name |-> "ReportFolder", directoryName |-> "reports",
   suffix |-> "reportFolder", inFolder |-> FALSE, strictDirectoryName |-> FALSE,
   children |-> <<>>, adapter |-> "",
   folderType |-> "", folderContentType |-> "report"]

\* a type in folders that requires its directory
Document ==
  [id |-> "document", name |-> "Document", directoryName |-> "documents",
   suffix |-> "document", inFolder |-> TRUE, strictDirectoryName |-> TRUE,
   children |-> <<>>, adapter |-> "mixedContent",
   folderType |-> "documentfolder", folderContentType |-> ""]

RegistryTypes ==
  {CustomObject, ApexClass, LightningComponentBundle, StaticResource, Widget,
   Report, ReportFolder, Document}

ChildTypes == {CustomField}

\* String.prototype.toLowerCase().trim() on the type names of the model
toLowerTrim(s) ==
  CASE s = "CustomObject" -> "customobject"
    [] s = "CustomField" -> "customfield"
    [] s = "ApexClass" -> "apexclass"
    [] s = "LightningComponentBundle" -> "lightningcomponentbundle"
    [] s = "StaticResource" -> "staticresource"
    [] s = "Widget" -> "widget"
    [] s = "Report" -> "report"
    [] s = "ReportFolder" -> "reportfolder"
    [] s = "Document" -> "document"
    [] OTHER -> s

\* RegistryAccess.getTypeByName: the catalog is keyed by type id and a name is
\* looked up lowercased; NoType stands for the RegistryError of a miss
getTypeByName(n) ==
  LET found == {t \in RegistryTypes \cup ChildTypes :
                  t.id = toLowerTrim(n) \/ toLowerTrim(t.name) = toLowerTrim(n)}
  IN IF found = {} THEN NoType ELSE CHOOSE t \in found : TRUE

----------------------------------------------------------------------------
(* Components                                                              *)

\* form "name": a ComponentLike whose type is a type name (tstr);
\* form "object": a MetadataComponent whose type is a registry type;
\* form "source": a SourceComponent; form "undefined": no component;
\* form "throw": the error (tstr) an iterator throws in place of an item.
Undefined ==
  [form |-> "undefined", tstr |-> "", type |-> NoType, fullName |-> <<>>,
   name |-> <<>>, xml |-> <<>>, content |-> <<>>, parent |-> <<>>]

LikeByName(n, fn) ==
  [form |-> "name", tstr |-> n, type |-> NoType, fullName |-> fn,
   name |-> <<>>, xml |-> <<>>, content |-> <<>>, parent |-> <<>>]

LikeByType(t, fn) ==
  [form |-> "object", tstr |-> "", type |-> t, fullName |-> fn,
   name |-> <<>>, xml |-> <<>>, content |-> <<>>, parent |-> <<>>]

SourceComponent(t, n, x, c, par) ==
  [form |-> "source", tstr |-> "", type |-> t, fullName |-> <<>>,
   name |-> n, xml |-> x, content |-> c, parent |-> par]

RECURSIVE FullName(_)
\* SourceComponent.fullName (the getter); the fullName field of the others
FullName(c) ==
  IF c.form = "source"
    THEN (IF c.parent # <<>> THEN FullName(c.parent[1]) \o <<".">> ELSE <<>>) \o c.name
    ELSE c.fullName

----------------------------------------------------------------------------
(* ComponentSet                                                            *)

WILDCARD == <<"*">>

KEY_DELIMITER == "#"

\* Map.has / Map.get / Map.set of an insertion-ordered map, kept as a
\* sequence of [k, v] entries
MapHas(m, k) == \E i \in 1..Len(m) : m[i].k = k

MapGet(m, k) == m[CHOOSE i \in 1..Len(m) : m[i].k = k].v

MapSet(m, k, v) ==
  IF MapHas(m, k)
    THEN [i \in 1..Len(m) |-> IF m[i].k = k THEN [k |-> k, v |-> v] ELSE m[i]]
    ELSE Append(m, [k |-> k, v |-> v])

sourceKey(c) ==
  <<c.type.name>> \o FullName(c) \o PathText(c.xml) \o PathText(c.content)

\* the fullName of a component that has none (undefined)
UndefinedName == <<>>

\* `${fullName}` in a template literal
TextOfName(fullName) == IF fullName = UndefinedName THEN <<"undefined">> ELSE fullName

simpleKey(c) ==
  <<IF c.form = "name" THEN toLowerTrim(c.tstr) ELSE c.type.id, KEY_DELIMITER>>
    \o TextOfName(FullName(c))

\* add() returning true for every source-backed component
addReturnsForEverySource(comps, c) ==
  c.form = "source" \/ ~MapHas(comps, simpleKey(c))

\* what add() returns
addReturns(comps, c) ==
  IF c.form = "source"
    THEN ~(MapHas(comps, simpleKey(c))
           /\ MapHas(MapGet(comps, simpleKey(c)), sourceKey(c)))
    ELSE ~MapHas(comps, simpleKey(c))

\* the index after add()
add(comps, c) ==
  LET key == simpleKey(c)
      m1 == IF MapHas(comps, key) THEN comps ELSE MapSet(comps, key, <<>>)
  IN IF c.form = "source"
       THEN MapSet(m1, key, MapSet(MapGet(m1, key), sourceKey(c), c))
       ELSE m1

normalize(c) ==
  IF c.form = "name" THEN LikeByType(getTypeByName(c.tstr), c.fullName) ELSE c

RECURSIVE flushComponents(_, _)
\* the generator flushComponents run to its end: the index and the seed
\* iterator it leaves, and what it yielded
flushComponents(comps, fl) ==
  IF fl = <<>>
    THEN [components |-> comps, flush |-> <<>>, yielded |-> <<>>, error |-> "none"]
    ELSE IF Head(fl).form = "throw"
      THEN [components |-> comps, flush |-> <<>>, yielded |-> <<>>,
            error |-> Head(fl).tstr]
    ELSE IF Head(fl).form = "undefined"
      THEN [components |-> comps, flush |-> Tail(fl), yielded |-> <<>>,
            error |-> "none"]
      ELSE LET rest == flushComponents(add(comps, Head(fl)), Tail(fl))
           IN [rest EXCEPT !.yielded =
                 IF addReturns(comps, Head(fl))
                   THEN <<normalize(Head(fl))>> \o @ ELSE @]

RECURSIVE flushNext(_, _)
\* one next() of the generator flushComponents: the seed is read, and its
\* elements added, up to the first one for which add() returns true (the
\* value yielded), or to the end of the seed or an empty element (done; the
\* value is the error when the seed throws); taken: the elements passed to
\* add()
flushNext(comps, fl) ==
  IF fl = <<>>
    THEN [components |-> comps, flush |-> <<>>, taken |-> <<>>, done |-> TRUE,
          value |-> Undefined]
    ELSE IF Head(fl).form = "throw"
      THEN [components |-> comps, flush |-> <<>>, taken |-> <<>>, done |-> TRUE,
            value |-> Head(fl)]
    ELSE IF Head(fl).form = "undefined"
      THEN [components |-> comps, flush |-> Tail(fl), taken |-> <<>>, done |-> TRUE,
            value |-> Undefined]
    ELSE IF addReturns(comps, Head(fl))
      THEN [components |-> add(comps, Head(fl)), flush |-> Tail(fl),
            taken |-> <<Head(fl)>>, done |-> FALSE, value |-> normalize(Head(fl))]
      ELSE LET rest == flushNext(add(comps, Head(fl)), Tail(fl))
           IN [rest EXCEPT !.taken = <<Head(fl)>> \o @]

\* the components of the seed that the flush passes to add()
flushed(fl) ==
  LET Stops(c) == c.form \in {"undefined", "throw"}
      n == IF \E i \in 1..Len(fl) : Stops(fl[i])
             THEN (CHOOSE i \in 1..Len(fl) :
                     Stops(fl[i]) /\ \A j \in 1..(i - 1) : ~Stops(fl[j])) - 1
             ELSE Len(fl)
  IN SubSeq(fl, 1, n)

\* `const [type, fullName] = key.split(KEY_DELIMITER)` and the yield of the
\* abstract component
abstractOfKey(key) ==
  LET parts == SplitOn(key, KEY_DELIMITER)
  IN normalize(LikeByName(IF parts[1] = <<>> THEN "" ELSE parts[1][1],
                          IF Len(parts) > 1 THEN parts[2] ELSE <<>>))

RECURSIVE yieldEntries(_)
\* the for loop of [Symbol.iterator] over this.components.entries()
yieldEntries(comps) ==
  IF comps = <<>> THEN <<>>
  ELSE (IF Len(Head(comps).v) = 0
          THEN <<abstractOfKey(Head(comps).k)>>
          ELSE [i \in 1..Len(Head(comps).v) |-> normalize(Head(comps).v[i].v)])
       \o yieldEntries(Tail(comps))

\* [Symbol.iterator] run to its end: the entries, then `yield* flushComponents()`
iterate(comps, fl) == yieldEntries(comps) \o flushComponents(comps, fl).yielded

RECURSIVE entriesNext(_, _, _)
\* one next() of the generator [Symbol.iterator] inside its for loop: i is
\* the entry the iterator of this.components is at, j the position of the
\* iterator of that entry's sources (0: the entry is still to be fetched);
\* both iterators are those of a Map, which see what is set meanwhile
entriesNext(comps, i, j) ==
  IF i > Len(comps)
    THEN [done |-> TRUE, value |-> Undefined, i |-> i, j |-> 0]
    ELSE IF j = 0
      THEN IF Len(comps[i].v) = 0
             THEN [done |-> FALSE, value |-> abstractOfKey(comps[i].k),
                   i |-> i + 1, j |-> 0]
             ELSE [done |-> FALSE, value |-> normalize(comps[i].v[1].v),
                   i |-> i, j |-> 2]
    ELSE IF j <= Len(comps[i].v)
      THEN [done |-> FALSE, value |-> normalize(comps[i].v[j].v), i |-> i, j |-> j + 1]
      ELSE entriesNext(comps, i + 1, 0)

\* an iterator of the set that has not been asked for a component
NoIter ==
  [kind |-> "none", phase |-> "entries", i |-> 1, j |-> 0, yielded |-> <<>>,
   mixed |-> FALSE]

\* one next() of the generator [Symbol.iterator] suspended at `it`: the next
\* component of the for loop, and after the loop `yield* flushComponents()`
iteratorNext(it, comps, fl) ==
  LET e == entriesNext(comps, it.i, it.j)
      f == flushNext(comps, fl)
  IN IF it.phase = "entries" /\ ~e.done
       THEN [iter |-> [it EXCEPT !.i = e.i, !.j = e.j], components |-> comps,
             flush |-> fl, taken |-> <<>>, done |-> FALSE, value |-> e.value]
       ELSE [iter |-> [it EXCEPT !.phase = "flush"], components |-> f.components,
             flush |-> f.flush, taken |-> f.taken, done |-> f.done, value |-> f.value]

RECURSIVE untilSource(_)
\* the filter of the collection getSourceComponents() returned: r is what
\* the set's iterator gave last, and the iterator is asked again until it
\* gives a SourceComponent or ends
untilSource(r) ==
  IF r.done \/ r.value.form = "source"
    THEN r
    ELSE untilSource([iteratorNext(r.iter, r.components, r.flush)
                        EXCEPT !.taken = r.taken \o @])

\* one next() of the collection getSourceComponents() returned
sourcesNext(it, comps, fl) == untilSource(iteratorNext(it, comps, fl))

\* has(), on the index that flushNoYield left
has(comps, c) ==
  \/ MapHas(comps, simpleKey(c))
  \/ MapHas(comps, simpleKey(LikeByName(
                IF c.form = "name" THEN c.tstr ELSE c.type.name, WILDCARD)))
  \/ /\ c.form # "name"
     /\ c.parent # <<>>
     /\ \/ MapHas(comps, simpleKey(c.parent[1]))
        \/ MapHas(comps, simpleKey(LikeByType(c.parent[1].type, WILDCARD)))

\* getSourceComponents(): the source-backed components of the iteration
RECURSIVE SelectSources(_)
SelectSources(s) ==
  IF s = <<>> THEN <<>>
  ELSE (IF Head(s).form = "source" THEN <<Head(s)>> ELSE <<>>) \o SelectSources(Tail(s))

RECURSIVE addAll(_, _)
addAll(comps, s) ==
  IF s = <<>> THEN comps ELSE addAll(add(comps, Head(s)), Tail(s))

Defined(s) == SelectSeq(s, LAMBDA c : c.form # "undefined")

----------------------------------------------------------------------------
(* Paths and file names                                                    *)

\* path.basename / path.dirname / path.join on a path kept as its segments
basename(p) == IF p = <<>> THEN <<>> ELSE p[Len(p)]

dirname(p) == IF p = <<>> THEN <<>> ELSE SubSeq(p, 1, Len(p) - 1)

join(p, n) == Append(p, n)

\* utils/path parentName: the name of the directory a path is in
parentName(p) == basename(dirname(p))

META_XML_SUFFIX == <<"-meta", ".", "xml">>

\* position of the last "." of a name, 0 when it has none
LastDot(n) ==
  IF \E i \in 1..Len(n) : n[i] = "."
    THEN CHOOSE i \in 1..Len(n) : n[i] = "." /\ \A j \in (i + 1)..Len(n) : n[j] # "."
    ELSE 0

\* utils/path extName: what follows the last "." of the file name
extName(p) ==
  LET n == basename(p)
  IN IF LastDot(n) = 0 THEN <<>> ELSE SubSeq(n, LastDot(n) + 1, Len(n))

EndsWithMetaXml(n) ==
  Len(n) > 3 /\ SubSeq(n, Len(n) - 2, Len(n)) = META_XML_SUFFIX

\* the match of /(.+)\.(.+)-meta\.xml/ on a name whose part before -meta.xml
\* is stem and whose last "." is at d
MetadataXmlAt(p, stem, d) ==
  IF d > 1 /\ d < Len(stem)
    THEN [ok |-> TRUE, fullName |-> SubSeq(stem, 1, d - 1),
          suffix |-> SubSeq(stem, d + 1, Len(stem)), path |-> p]
    ELSE [ok |-> FALSE, fullName |-> <<>>, suffix |-> <<>>, path |-> p]

\* utils/registry parseMetadataXml: <fullName>.<suffix>-meta.xml; ok is FALSE
\* when the name does not match
parseMetadataXml(p) ==
  IF EndsWithMetaXml(basename(p))
    THEN MetadataXmlAt(p, SubSeq(basename(p), 1, Len(basename(p)) - 3),
                       LastDot(SubSeq(basename(p), 1, Len(basename(p)) - 3)))
    ELSE MetadataXmlAt(p, <<>>, 0)

\* utils/path baseName: the file name up to its first "."
baseName(p) ==
  LET n == basename(p)
  IN IF \E i \in 1..Len(n) : n[i] = "."
       THEN SubSeq(n, 1, (CHOOSE i \in 1..Len(n) :
                            n[i] = "." /\ \A j \in 1..(i - 1) : n[j] # ".") - 1)
       ELSE n

----------------------------------------------------------------------------
(* The tree, the ignore matcher and the registry lookups                   *)

Dir(s) == <<s>>

ContentFile(n, ext) == <<n, ".", ext>>

MetaXml(n, suffix) == <<n, ".", suffix>> \o META_XML_SUFFIX

\* TreeContainer.readDirectory of the virtual tree of the model; withBad adds
\* a metadata xml of an unregistered suffix to classes/ and to the fields of
\* the object
readDirectory(p, withBad) ==
  CASE p = <<>> ->
         <<Dir("classes"), Dir("lwc"), Dir("objects"), Dir("staticresources"),
           Dir("widgets")>>
    [] p = <<Dir("classes")>> ->
         <<ContentFile("A", "cls"), MetaXml("A", "cls")>>
           \o (IF withBad THEN <<MetaXml("B", "xyz")>> ELSE <<>>)
    [] p = <<Dir("lwc")>> -> <<Dir("foo")>>
    [] p = <<Dir("lwc"), Dir("foo")>> ->
         <<ContentFile("foo", "js"), MetaXml("foo", "js")>>
    [] p = <<Dir("objects")>> -> <<Dir("A")>>
    [] p = <<Dir("objects"), Dir("A")>> ->
         <<MetaXml("A", "object"), Dir("fields")>>
    [] p = <<Dir("objects"), Dir("A"), Dir("fields")>> ->
         <<MetaXml("F", "field")>>
           \o (IF withBad THEN <<MetaXml("G", "xyz")>> ELSE <<>>)
    [] p = <<Dir("staticresources")>> ->
         <<Dir("a"), MetaXml("a", "resource")>>
    [] p = <<Dir("staticresources"), Dir("a")>> -> <<ContentFile("x", "js")>>
    [] p = <<Dir("widgets")>> -> <<MetaXml("W", "widget")>>
    [] OTHER -> <<>>

Directories ==
  {<<>>, <<Dir("classes")>>, <<Dir("lwc")>>, <<Dir("lwc"), Dir("foo")>>,
   <<Dir("objects")>>, <<Dir("objects"), Dir("A")>>,
   <<Dir("objects"), Dir("A"), Dir("fields")>>,
   <<Dir("staticresources")>>, <<Dir("staticresources"), Dir("a")>>,
   <<Dir("widgets")>>}

\* TreeContainer.isDirectory / exists
isDirectory(p) == p \in Directories

exists(p, withBad) ==
  \/ p = <<>>
  \/ /\ dirname(p) \in Directories
     /\ \E i \in 1..Len(readDirectory(dirname(p), withBad)) :
          readDirectory(dirname(p), withBad)[i] = basename(p)

IsPrefix(a, b) == Len(a) <= Len(b) /\ SubSeq(b, 1, Len(a)) = a

\* ForceIgnore.denies: a denied path denies everything under it
denies(p, deniedRoots) == \E r \in deniedRoots : IsPrefix(r, p)

\* the catalog, in its order
RegistryOrder ==
  <<ApexClass, CustomObject, Document, LightningComponentBundle, Report,
    ReportFolder, StaticResource, Widget>>

\* RegistryAccess.getStrictFolderTypes
getStrictFolderTypes == SelectSeq(RegistryOrder, LAMBDA t : t.strictDirectoryName)

\* RegistryAccess.findType: the first of the types of the catalog that
\* satisfy the test (matching), NoType when none does
findType(matching) == IF matching = <<>> THEN NoType ELSE matching[1]

\* RegistryAccess.getTypeBySuffix
getTypeBySuffix(sfx) ==
  findType(SelectSeq(RegistryOrder, LAMBDA t : t.suffix # "" /\ <<t.suffix>> = sfx))

----------------------------------------------------------------------------
(* Adapters                                                                *)

\* SourceAdapter.allowMetadataWithContent of the adapter a type dispatches to
allowMetadataWithContent(type) == type.adapter # ""

\* the entry of the type's directory that p is or lies under
RootEntry(type, p) ==
  IF \E i \in 1..(Len(p) - 1) : p[i] = <<type.directoryName>>
    THEN SubSeq(p, 1, 1 + CHOOSE i \in 1..(Len(p) - 1) :
                           /\ p[i] = <<type.directoryName>>
                           /\ \A k \in 1..(i - 1) : p[k] # <<type.directoryName>>)
    ELSE <<>>

\* the first of the entries of a directory that satisfy a test (names),
\* <<>> when none does
FindEntry(dir, names) == IF names = <<>> THEN <<>> ELSE join(dir, names[1])

\* the path when it is in the tree, <<>> otherwise
IfExists(p, withBad) == IF exists(p, withBad) THEN p ELSE <<>>

\* Base: xml is the path when it parses as metadata xml, no content
BaseComponent(type, p, parsed) ==
  IF parsed.ok THEN SourceComponent(type, parsed.fullName, p, <<>>, <<>>)
  ELSE Undefined

\* MatchingContent: X.<suffix>-meta.xml and its sibling X.<suffix>
MatchingContentComponent(type, p, parsed, withBad) ==
  IF parsed.ok
    THEN SourceComponent(type, parsed.fullName, p,
           IfExists(join(dirname(p), parsed.fullName \o <<".", type.suffix>>), withBad),
           <<>>)
    ELSE SourceComponent(type, baseName(p),
           IfExists(join(dirname(p), basename(p) \o META_XML_SUFFIX), withBad), p, <<>>)

\* the metadata xml of the type inside a content directory
XmlInside(type, root, withBad) ==
  FindEntry(root,
    SelectSeq(readDirectory(root, withBad),
      LAMBDA n : parseMetadataXml(<<n>>).ok
                 /\ (type.suffix = ""
                     \/ parseMetadataXml(<<n>>).suffix = <<type.suffix>>)))

\* the content next to a root metadata xml: the sibling named as the component
ContentBeside(root, rootName, withBad) ==
  FindEntry(dirname(root),
    SelectSeq(readDirectory(dirname(root), withBad),
      LAMBDA n : ~parseMetadataXml(<<n>>).ok /\ baseName(<<n>>) = rootName))

\* the xml of a component whose content is the root entry: the sibling
\* <name>.<suffix>-meta.xml of a mixed content, else the xml inside
XmlOf(type, root, siblingXml, withBad) ==
  IF type.adapter = "mixedContent" /\ exists(siblingXml, withBad)
    THEN siblingXml ELSE XmlInside(type, root, withBad)

\* MixedContent, Bundle, Decomposed: the component of the root entry
RootedComponent(type, root, rootXml, withBad) ==
  IF root = <<>> THEN Undefined
  ELSE IF rootXml.ok
    THEN SourceComponent(type, rootXml.fullName, root,
           ContentBeside(root, rootXml.fullName, withBad), <<>>)
    ELSE SourceComponent(type, baseName(root),
           XmlOf(type, root,
                 join(dirname(root),
                      baseName(root) \o <<".", type.suffix>> \o META_XML_SUFFIX),
                 withBad),
           root, <<>>)

\* SourceAdapter.getComponent of the adapter the type dispatches to
getComponent(type, p, withBad) ==
  CASE type.adapter = "" -> BaseComponent(type, p, parseMetadataXml(p))
    [] type.adapter = "matchingContentFile" ->
         MatchingContentComponent(type, p, parseMetadataXml(p), withBad)
    [] OTHER ->
         RootedComponent(type, RootEntry(type, p),
                         parseMetadataXml(RootEntry(type, p)), withBad)

----------------------------------------------------------------------------
(* SourceComponent: children                                               *)

RECURSIVE walk(_, _, _)
RECURSIVE walkChildren(_, _, _, _)
\* the for loop of walk over the entries of a directory
walkChildren(dir, names, deniedRoots, withBad) ==
  IF names = <<>> THEN <<>>
  ELSE (IF denies(join(dir, Head(names)), deniedRoots) THEN <<>>
        ELSE IF isDirectory(join(dir, Head(names)))
          THEN walk(join(dir, Head(names)), deniedRoots, withBad)
        ELSE <<join(dir, Head(names))>>)
       \o walkChildren(dir, Tail(names), deniedRoots, withBad)

\* SourceComponent.walk: the files under a path that the matcher does not deny
walk(p, deniedRoots, withBad) ==
  IF ~isDirectory(p) THEN <<p>>
  ELSE walkChildren(p, readDirectory(p, withBad), deniedRoots, withBad)

\* type.children.types[type.children.suffixes[suffix]]
ChildTypeBySuffix(type, sfx) ==
  LET s == SelectSeq(type.children, LAMBDA t : <<t.suffix>> = sfx)
  IN IF s = <<>> THEN NoType ELSE s[1]

\* the child component of a walked file, when the file is the metadata xml
\* of a child
childOf(c, fsPath, childXml) ==
  IF childXml.ok /\ childXml.suffix # <<c.type.suffix>>
    THEN <<SourceComponent(ChildTypeBySuffix(c.type, childXml.suffix),
                           baseName(fsPath), fsPath, <<>>, <<c>>)>>
    ELSE <<>>

RECURSIVE childrenOf(_, _)
\* the for loop of getChildrenInternal over the walked files
childrenOf(c, files) ==
  IF files = <<>> THEN <<>>
  ELSE childOf(c, Head(files), parseMetadataXml(Head(files)))
         \o childrenOf(c, Tail(files))

\* SourceComponent.getChildren
getChildren(c, deniedRoots, withBad) ==
  IF c.content # <<>> /\ c.parent = <<>> /\ c.type.children # <<>>
    THEN childrenOf(c, walk(c.content, deniedRoots, withBad))
    ELSE <<>>

----------------------------------------------------------------------------
(* MetadataResolver                                                        *)

parseAsContentMetadataXml(p) == getTypeBySuffix(extName(p)) # NoType

\* basename.match(/(.+)-meta\.xml/): the pattern is not anchored, and the
\* greedy group takes what precedes the last -meta.xml of the name; the name
\* of the enclosing directory when the group has no ".", <<>> otherwise
parseAsFolderMetadataXml(p) ==
  LET n == basename(p)
      at == {i \in 2..(Len(n) - 2) : SubSeq(n, i, i + 2) = META_XML_SUFFIX}
      last == CHOOSE i \in at : \A j \in at : j <= i
  IN IF /\ at # {}
        /\ \A k \in 1..(last - 1) : n[k] # "."
        /\ Len(p) > 1
       THEN p[Len(p) - 1] ELSE <<>>

isMetadata(p) ==
  \/ parseMetadataXml(p).ok
  \/ parseAsContentMetadataXml(p)
  \/ parseAsFolderMetadataXml(p) # <<>>

\* `if (!resolvedType) { resolvedType = ... }`; NoType stands for undefined
OrElse(resolvedType, next) == IF resolvedType # NoType THEN resolvedType ELSE next

\* attempt 1: inPath is the strict folder types whose directoryName is a part
\* of the path; the loop breaks at the first of them
StrictFolderType(p, inPath) ==
  IF inPath # <<>>
     /\ (~inPath[1].inFolder \/ parentName(p) # <<inPath[1].directoryName>>)
    THEN inPath[1] ELSE NoType

\* attempt 2: the suffix of a metadata xml
MetaXmlType(parsedMetaXml) ==
  IF parsedMetaXml.ok THEN getTypeBySuffix(parsedMetaXml.suffix) ELSE NoType

\* attempt 2.5: a folder style metadata xml
FolderType(metadataFolder) ==
  IF metadataFolder # <<>>
    THEN findType(SelectSeq(RegistryOrder,
           LAMBDA t : <<t.directoryName>> = metadataFolder /\ ~t.inFolder))
    ELSE NoType

resolveType(p) ==
  OrElse(OrElse(OrElse(
    StrictFolderType(p, SelectSeq(getStrictFolderTypes,
                          LAMBDA t : \E i \in 1..Len(p) : p[i] = <<t.directoryName>>)),
    MetaXmlType(parseMetadataXml(p))),
    FolderType(parseAsFolderMetadataXml(p))),
    getTypeBySuffix(extName(p)))

\* parts.indexOf(directoryName), -1 when absent
IndexOf(p, n) ==
  IF \E i \in 1..Len(p) : p[i] = n
    THEN (CHOOSE i \in 1..Len(p) : p[i] = n /\ \A j \in 1..(i - 1) : p[j] # n) - 1
    ELSE -1

\* the folderOffset of a type that is never in a folder
folderOffsetOutsideFolders(type) == 1

folderOffset(type) == IF type.inFolder THEN 2 ELSE 1

\* the test of resolveDirectoryAsComponent on the type resolved for dirPath
ShouldResolveDirectory(dirPath, type, typeDirectoryIndex) ==
  /\ type # NoType
  /\ ~(\/ typeDirectoryIndex = -1
       \/ Len(dirPath) - folderOffset(type) <= typeDirectoryIndex
       \/ type.children # <<>>)

resolveDirectoryAsComponent(dirPath) ==
  ShouldResolveDirectory(dirPath, resolveType(dirPath),
                         IndexOf(dirPath, <<resolveType(dirPath).directoryName>>))

Resolved(c) == [c |-> c, error |-> "none"]

\* the shouldResolve of resolveComponent
shouldResolveComponent(type, p, isResolvingSource) ==
  \/ isResolvingSource
  \/ ~parseAsContentMetadataXml(p)
  \/ ~allowMetadataWithContent(type)

\* resolveComponent once the type is resolved
ResolveWithType(type, p, isResolvingSource, withBad) ==
  IF type # NoType
    THEN IF shouldResolveComponent(type, p, isResolvingSource)
           THEN Resolved(getComponent(type, p, withBad))
           ELSE Resolved(Undefined)
    ELSE [c |-> Undefined, error |-> "error_could_not_infer_type"]

\* resolveComponent: the component, or Undefined, or the error it throws
resolveComponent(p, isResolvingSource, deniedRoots, withBad) ==
  IF isMetadata(p) /\ denies(p, deniedRoots) THEN Resolved(Undefined)
  ELSE ResolveWithType(resolveType(p), p, isResolvingSource, withBad)

\* the filter argument: on is FALSE when no filter is given
NoFilter == [on |-> FALSE, components |-> <<>>]

Passes(filter, c) == ~filter.on \/ has(filter.components, c)

\* what a generator did: what it yielded, the error it threw, whether the
\* first loop of resolveSourceRecursive returned, and its dirQueue
Walked(ys, err, ret, q) ==
  [yielded |-> ys, error |-> err, returned |-> ret, dirQueue |-> q]

\* ys were yielded, then w happened
After(ys, w) == [w EXCEPT !.yielded = ys \o @]

RECURSIVE resolveSourceRecursive(_, _, _, _)
RECURSIVE walkQueue(_, _, _, _)
RECURSIVE walkFiles(_, _, _, _, _, _, _)

\* the entry is a directory resolved as one component (asDir); later is the
\* loop over the entries after it, with the xml of the component ignored when
\* it was yielded
DirectoryEntry(asDir, filter, dirQueue, later, laterIgnoringXml) ==
  IF asDir.error # "none" THEN Walked(<<>>, asDir.error, FALSE, dirQueue)
  ELSE IF asDir.c = Undefined
    THEN Walked(IF filter.on THEN <<>> ELSE <<Undefined>>, "TypeError", FALSE, dirQueue)
  ELSE IF Passes(filter, asDir.c) THEN After(<<asDir.c>>, laterIgnoringXml)
  ELSE later

RECURSIVE ChildrenIn(_, _)
\* the loop over the children of a component the filter does not have:
\* filter.has(child) reads child.type.id in simpleKey, which throws a
\* TypeError for a child whose type is undefined
ChildrenIn(filter, children) ==
  IF children = <<>> THEN [yielded |-> <<>>, error |-> "none"]
  ELSE IF Head(children).type = NoType THEN [yielded |-> <<>>, error |-> "TypeError"]
  ELSE [ChildrenIn(filter, Tail(children)) EXCEPT
          !.yielded = (IF has(filter.components, Head(children))
                         THEN <<Head(children)>> ELSE <<>>) \o @]

\* what the loop yields for the component of a metadata file, and the error
\* it throws
YieldsOf(component, filter, deniedRoots, withBad) ==
  IF Passes(filter, component) THEN [yielded |-> <<component>>, error |-> "none"]
  ELSE ChildrenIn(filter, getChildren(component, deniedRoots, withBad))

\* the entry is a metadata file whose component is asFile
FileEntry(asFile, fsPath, filter, dirQueue, deniedRoots, withBad, later, laterIgnoringContent) ==
  IF asFile.error # "none" THEN Walked(<<>>, asFile.error, FALSE, dirQueue)
  ELSE IF asFile.c = Undefined THEN later
  ELSE IF YieldsOf(asFile.c, filter, deniedRoots, withBad).error # "none"
    THEN Walked(YieldsOf(asFile.c, filter, deniedRoots, withBad).yielded,
                YieldsOf(asFile.c, filter, deniedRoots, withBad).error, FALSE, dirQueue)
  ELSE IF /\ asFile.c.type.strictDirectoryName
          /\ basename(dirname(IF asFile.c.type.inFolder
                                THEN dirname(fsPath) ELSE fsPath))
               # <<asFile.c.type.directoryName>>
    THEN Walked(YieldsOf(asFile.c, filter, deniedRoots, withBad).yielded, "none", TRUE,
                dirQueue)
  ELSE After(YieldsOf(asFile.c, filter, deniedRoots, withBad).yielded,
             IF Passes(filter, asFile.c) THEN laterIgnoringContent ELSE later)

\* one entry of the first for loop of resolveSourceRecursive
Entry(dir, files, fsPath, ignore, dirQueue, filter, deniedRoots, withBad) ==
  IF fsPath \in ignore
    THEN walkFiles(dir, Tail(files), ignore, dirQueue, filter, deniedRoots, withBad)
  ELSE IF isDirectory(fsPath)
    THEN IF resolveDirectoryAsComponent(fsPath)
           THEN DirectoryEntry(
                  resolveComponent(fsPath, TRUE, deniedRoots, withBad),
                  filter, dirQueue,
                  walkFiles(dir, Tail(files), ignore, dirQueue, filter,
                            deniedRoots, withBad),
                  walkFiles(dir, Tail(files),
                            ignore \cup {resolveComponent(fsPath, TRUE, deniedRoots,
                                                          withBad).c.xml},
                            dirQueue, filter, deniedRoots, withBad))
           ELSE walkFiles(dir, Tail(files), ignore, Append(dirQueue, fsPath),
                          filter, deniedRoots, withBad)
  ELSE IF isMetadata(fsPath)
    THEN FileEntry(
           resolveComponent(fsPath, FALSE, deniedRoots, withBad),
           fsPath, filter, dirQueue, deniedRoots, withBad,
           walkFiles(dir, Tail(files), ignore, dirQueue, filter, deniedRoots, withBad),
           walkFiles(dir, Tail(files),
                     ignore \cup {resolveComponent(fsPath, FALSE, deniedRoots,
                                                   withBad).c.content},
                     dirQueue, filter, deniedRoots, withBad))
  ELSE walkFiles(dir, Tail(files), ignore, dirQueue, filter, deniedRoots, withBad)

\* the first for loop of resolveSourceRecursive, from the entry Head(files) on
walkFiles(dir, files, ignore, dirQueue, filter, deniedRoots, withBad) ==
  IF files = <<>> THEN Walked(<<>>, "none", FALSE, dirQueue)
  ELSE Entry(dir, files, join(dir, Head(files)), ignore, dirQueue, filter,
             deniedRoots, withBad)

\* r happened, then, unless r threw, q
Then(r, q) ==
  IF r.error # "none" THEN [yielded |-> r.yielded, error |-> r.error]
  ELSE [yielded |-> r.yielded \o q.yielded, error |-> q.error]

\* the second for loop of resolveSourceRecursive
walkQueue(dirs, filter, deniedRoots, withBad) ==
  IF dirs = <<>> THEN [yielded |-> <<>>, error |-> "none"]
  ELSE Then(resolveSourceRecursive(Head(dirs), filter, deniedRoots, withBad),
            walkQueue(Tail(dirs), filter, deniedRoots, withBad))

\* the second for loop after the first one did w
QueueAfter(w, filter, deniedRoots, withBad) ==
  IF w.error # "none" \/ w.returned
    THEN [yielded |-> w.yielded, error |-> w.error]
    ELSE Then(w, walkQueue(w.dirQueue, filter, deniedRoots, withBad))

\* the generator resolveSourceRecursive run to its end: what it yields and
\* the error it throws
resolveSourceRecursive(dir, filter, deniedRoots, withBad) ==
  IF denies(dir, deniedRoots) THEN [yielded |-> <<>>, error |-> "none"]
  ELSE QueueAfter(walkFiles(dir, readDirectory(dir, withBad), {}, <<>>,
                            filter, deniedRoots, withBad),
                  filter, deniedRoots, withBad)

\* an error thrown by the seed iterator of a ComponentSet
Throw(e) == [Undefined EXCEPT !.form = "throw", !.tstr = e]

\* the items of a generator that did r and then produces more
Items(r, more) ==
  IF r.error # "none" THEN r.yielded \o <<Throw(r.error)>> ELSE r.yielded \o more

\* `yield resolver.resolveComponent(fsPath, true)`
Yield(c) == [yielded |-> IF c.error = "none" THEN <<c.c>> ELSE <<>>, error |-> c.error]

RECURSIVE resolveSource(_, _, _, _)
\* resolveSource: the items of the generator the returned ComponentSet is
\* constructed on, a thrown error being the last item
resolveSource(fsPaths, filter, deniedRoots, withBad) ==
  IF fsPaths = <<>> THEN <<>>
  ELSE IF ~exists(Head(fsPaths), withBad) THEN <<Throw("error_path_not_found")>>
  ELSE IF isDirectory(Head(fsPaths)) /\ ~resolveDirectoryAsComponent(Head(fsPaths))
    THEN Items(resolveSourceRecursive(Head(fsPaths), filter, deniedRoots, withBad),
               resolveSource(Tail(fsPaths), filter, deniedRoots, withBad))
  ELSE Items(Yield(resolveComponent(Head(fsPaths), TRUE, deniedRoots, withBad)),
             resolveSource(Tail(fsPaths), filter, deniedRoots, withBad))

----------------------------------------------------------------------------
(* ComponentSet: the operations                                            *)

MaxSeed == 2

MaxAdds == 1

ObjA1 ==
  SourceComponent(CustomObject, <<"A">>,
    << <<"pkg1">>, <<"objects">>, <<"A">>, MetaXml("A", "object") >>,
    << <<"pkg1">>, <<"objects">>, <<"A">> >>, <<>>)

ObjA2 ==
  SourceComponent(CustomObject, <<"A">>,
    << <<"pkg2">>, <<"objects">>, <<"A">>, MetaXml("A", "object") >>,
    << <<"pkg2">>, <<"objects">>, <<"A">> >>, <<>>)

FieldF ==
  SourceComponent(CustomField, <<"F">>,
    << <<"pkg1">>, <<"objects">>, <<"A">>, <<"fields">>, MetaXml("F", "field") >>,
    <<>>, <<ObjA1>>)

WidgetA ==
  SourceComponent(Widget, <<"A">>,
    << <<"pkg1">>, <<"widgets">>, MetaXml("A", "widget") >>, <<>>, <<>>)

SetTypes == {CustomObject, Widget}

SetNames == {WILDCARD, <<"A">>}

\* the components the seed produces and the application adds or asks for
Universe ==
  {LikeByName(t.name, fn) : t \in SetTypes, fn \in SetNames}
    \cup {LikeByType(t, fn) : t \in SetTypes, fn \in SetNames}
    \cup {ObjA1, ObjA2, FieldF, WidgetA}

\* what a seed produces: a member given by type name, a wildcard given by
\* type, source-backed components (one under the key of that member, one of
\* a type whose id is not its lowercased name) and an empty element
SeedElements ==
  {LikeByName(CustomObject.name, <<"A">>), LikeByType(Widget, WILDCARD),
   ObjA1, WidgetA, Undefined}

Seeds ==
  UNION {[1..n -> SeedElements] : n \in 0..MaxSeed}

NoObs ==
  [op |-> "none", arg |-> Undefined, bool |-> FALSE, yielded |-> <<>>, n |-> 0,
   eagerBool |-> FALSE, eagerYielded |-> <<>>, pending |-> 0, mixed |-> FALSE,
   after |-> "none"]

\* the open iterator after another call on the set was made while it is open
Mixed(it) == IF it.kind = "none" THEN it ELSE [it EXCEPT !.mixed = TRUE]

\* new ComponentSet(components, registry): the seed iterator is stored
InitSet ==
  /\ flush \in Seeds
  /\ components = <<>>
  /\ added = <<>>
  /\ nAdds = 0
  /\ eager = addAll(<<>>, Defined(flush))
  /\ iter = NoIter
  /\ obs = NoObs

\* add(c) called by the application
Add(c) ==
  /\ nAdds < MaxAdds
  /\ nAdds' = nAdds + 1
  /\ components' = add(components, c)
  /\ added' = Append(added, c)
  /\ eager' = add(eager, c)
  /\ iter' = Mixed(iter)
  /\ obs' = [NoObs EXCEPT !.op = "add", !.arg = c,
                          !.bool = addReturns(components, c),
                          !.eagerBool = addReturns(eager, c),
                          !.pending = Len(Defined(flush))]
  /\ UNCHANGED flush
  /\ UNCHANGED <<tvars, rvars, mvars, dvars, nvars, xvars, wvars, gvars, kvars, ivars, pvars>>

\* has(c)
Has(c) ==
  LET f == flushComponents(components, flush)
  IN /\ components' = f.components
     /\ flush' = f.flush
     /\ added' = added \o flushed(flush)
     /\ iter' = Mixed(iter)
     /\ obs' = [NoObs EXCEPT !.op = "has", !.arg = c,
                             !.bool = has(f.components, c),
                             !.eagerBool = has(eager, c),
                             !.pending = Len(Defined(f.flush))]
     /\ UNCHANGED <<eager, nAdds>>
     /\ UNCHANGED <<tvars, rvars, mvars, dvars, nvars, xvars, wvars, gvars, kvars, ivars, pvars>>

\* `for (const c of set)` asking for its next component: the generator runs
\* from where it is suspended (from its start, for a new loop) to its next
\* yield or to its end; the loop's body runs between two of these steps
IterateNext ==
  /\ iter.kind \in {"none", "for"}
  /\ LET r == iteratorNext(iter, components, flush)
     IN /\ components' = r.components
        /\ flush' = r.flush
        /\ added' = added \o r.taken
        /\ iter' = IF r.done
                     THEN NoIter
                     ELSE [r.iter EXCEPT !.kind = "for",
                                         !.yielded = Append(iter.yielded, r.value)]
        /\ obs' = IF r.done
                    THEN [NoObs EXCEPT !.op = "iterate",
                                       !.yielded = iter.yielded,
                                       !.eagerYielded = iterate(eager, <<>>),
                                       !.pending = Len(Defined(r.flush)),
                                       !.mixed = iter.mixed]
                    ELSE [NoObs EXCEPT !.op = "next", !.arg = r.value]
  /\ UNCHANGED <<eager, nAdds>>
  /\ UNCHANGED <<tvars, rvars, mvars, dvars, nvars, xvars, wvars, gvars, kvars, ivars, pvars>>

\* `break` in the body of the loop, or the collection dropped before its
\* end: the generator is left where it is suspended
IterateReturn ==
  /\ iter.kind # "none"
  /\ iter' = NoIter
  /\ obs' = [NoObs EXCEPT !.op = "break", !.yielded = iter.yielded,
                          !.mixed = iter.mixed]
  /\ UNCHANGED <<components, flush, added, eager, nAdds>>
  /\ UNCHANGED <<tvars, rvars, mvars, dvars, nvars, xvars, wvars, gvars, kvars, ivars, pvars>>

\* `set.size`: the getter iterates the set to its end, which flushes the
\* seed; after: the call made before it, yielded: what that call yielded
Size ==
  LET f == flushComponents(components, flush)
  IN /\ components' = f.components
     /\ flush' = f.flush
     /\ added' = added \o flushed(flush)
     /\ iter' = Mixed(iter)
     /\ obs' = [NoObs EXCEPT !.op = "size",
                             !.n = Len(iterate(components, flush)),
                             !.after = obs.op,
                             !.yielded = obs.yielded,
                             !.mixed = obs.mixed,
                             !.pending = Len(Defined(f.flush))]
     /\ UNCHANGED <<eager, nAdds>>
     /\ UNCHANGED <<tvars, rvars, mvars, dvars, nvars, xvars, wvars, gvars, kvars, ivars, pvars>>

\* getSourceComponents() without a member: the seed is flushed and a
\* collection over the set is returned, which iterates the set when read
GetSourceComponents ==
  LET f == flushComponents(components, flush)
  IN /\ iter.kind = "none"
     /\ components' = f.components
     /\ flush' = f.flush
     /\ added' = added \o flushed(flush)
     /\ iter' = [NoIter EXCEPT !.kind = "sources"]
     /\ obs' = [NoObs EXCEPT !.op = "getSourceComponents",
                             !.pending = Len(Defined(f.flush))]
     /\ UNCHANGED <<eager, nAdds>>
     /\ UNCHANGED <<tvars, rvars, mvars, dvars, nvars, xvars, wvars, gvars, kvars, ivars, pvars>>

\* the returned collection asked for its next component
ReadSources ==
  /\ iter.kind = "sources"
  /\ LET r == sourcesNext(iter, components, flush)
     IN /\ components' = r.components
        /\ flush' = r.flush
        /\ added' = added \o r.taken
        /\ iter' = IF r.done
                     THEN NoIter
                     ELSE [r.iter EXCEPT !.yielded = Append(iter.yielded, r.value)]
        /\ obs' = IF r.done
                    THEN [NoObs EXCEPT !.op = "read",
                                       !.yielded = iter.yielded,
                                       !.eagerYielded = SelectSources(iterate(eager, <<>>)),
                                       !.pending = Len(Defined(r.flush)),
                                       !.mixed = iter.mixed]
                    ELSE [NoObs EXCEPT !.op = "next", !.arg = r.value]
  /\ UNCHANGED <<eager, nAdds>>
  /\ UNCHANGED <<tvars, rvars, mvars, dvars, nvars, xvars, wvars, gvars, kvars, ivars, pvars>>

----------------------------------------------------------------------------
(* MetadataResolver: the operations                                        *)

MaxPaths == 2

MaxCalls == 1

\* a path that is not in the tree
Missing == <<Dir("missing")>>

\* the paths the application asks to resolve
ResolvePaths ==
  {<<Dir("classes")>>, <<Dir("classes"), ContentFile("A", "cls")>>,
   <<Dir("lwc")>>, <<Dir("lwc"), Dir("foo")>>, <<Dir("objects")>>,
   <<Dir("staticresources")>>, Missing}

\* the paths the ignore file may deny: a metadata xml, a content file, a
\* content directory, a directory resolved as a component, a walked directory
DenyCandidates ==
  {<<Dir("classes"), MetaXml("A", "cls")>>, <<Dir("classes"), ContentFile("A", "cls")>>,
   <<Dir("staticresources"), Dir("a")>>, <<Dir("lwc"), Dir("foo")>>,
   <<Dir("objects")>>}

NoCall == [op |-> "none", path |-> <<>>]

\* what a caller reads of a set: the first iteration (with the error it
\* threw), then size, then a second iteration
NoRead ==
  [first |-> <<>>, error |-> "none", size |-> 0, sizeError |-> "none",
   second |-> <<>>]

\* the first iteration did f and the iteration of the size getter did g
ReadAfter(f, g) ==
  [first |-> f.yielded, error |-> f.error,
   size |-> Len(yieldEntries(f.components)) + Len(g.yielded),
   sizeError |-> g.error,
   second |-> iterate(g.components, g.flush)]

\* the reads that follow a first iteration that did f
ReadFrom(f) == ReadAfter(f, flushComponents(f.components, f.flush))

\* [...set], set.size, [...set] on a set constructed on the seed fl
Read(fl) == ReadFrom(flushComponents(<<>>, fl))

InitResolve ==
  /\ givenPaths \in UNION {[1..n -> ResolvePaths] : n \in 1..MaxPaths}
  /\ ignoreRoots \in SUBSET DenyCandidates
  /\ treeHasBad \in BOOLEAN
  /\ target = <<>>
  /\ targetBefore = <<>>
  /\ delivered = <<>>
  /\ rerror = "none"
  /\ rcall = NoCall
  /\ nCalls = 0
  /\ usedFilter = NoFilter
  /\ once = NoRead
  /\ twice = NoRead

\* resolver.resolveSource(fsPaths), and the returned set read to its end by
\* the caller: f is what the flush of its seed does
ResolveSource ==
  LET f == flushComponents(<<>>, resolveSource(givenPaths, NoFilter, ignoreRoots,
                                               treeHasBad))
  IN /\ nCalls < MaxCalls
     /\ nCalls' = nCalls + 1
     /\ delivered' = f.yielded
     /\ rerror' = f.error
     /\ rcall' = [op |-> "resolveSource", path |-> <<>>]
     /\ targetBefore' = target
     /\ UNCHANGED <<givenPaths, ignoreRoots, treeHasBad, target, usedFilter, once, twice>>
     /\ UNCHANGED <<tvars, svars, mvars, dvars, nvars, xvars, wvars, gvars, kvars, ivars, pvars>>

\* set.resolveSourceComponents(fsPath) on the receiving set, fsPath being the
\* i-th of the given paths: f is what the iteration of `resolved` does
ResolveSourceComponents(i) ==
  LET f == flushComponents(<<>>, resolveSource(<<givenPaths[i]>>, NoFilter,
                                               ignoreRoots, treeHasBad))
  IN /\ i <= Len(givenPaths)
     /\ nCalls < MaxCalls
     /\ nCalls' = nCalls + 1
     /\ target' = addAll(target, f.yielded)
     /\ targetBefore' = target
     /\ delivered' = IF f.error = "none"
                       THEN iterate(addAll(<<>>, f.yielded), <<>>) ELSE <<>>
     /\ rerror' = f.error
     /\ rcall' = [op |-> "resolveSourceComponents", path |-> givenPaths[i]]
     /\ UNCHANGED <<givenPaths, ignoreRoots, treeHasBad, usedFilter, once, twice>>
     /\ UNCHANGED <<tvars, svars, mvars, dvars, nvars, xvars, wvars, gvars, kvars, ivars, pvars>>

\* resolveSource([p]) and resolveSource([p, p]), p being the i-th of the
\* given paths, each returned set read by the caller
ResolveTwice(i) ==
  /\ i <= Len(givenPaths)
  /\ nCalls < MaxCalls
  /\ nCalls' = nCalls + 1
  /\ once' = Read(resolveSource(<<givenPaths[i]>>, NoFilter, ignoreRoots, treeHasBad))
  /\ twice' = Read(resolveSource(<<givenPaths[i], givenPaths[i]>>, NoFilter,
                                 ignoreRoots, treeHasBad))
  /\ rcall' = [op |-> "resolveTwice", path |-> givenPaths[i]]
  /\ UNCHANGED <<givenPaths, ignoreRoots, treeHasBad, target, targetBefore,
                 delivered, rerror, usedFilter>>
  /\ UNCHANGED <<tvars, svars, mvars, dvars, nvars, xvars, wvars, gvars, kvars, ivars, pvars>>

\* the sets the application filters with: a class listed by name, a field
\* of an object, a type of which the tree holds a component of another name
Filters ==
  << <<LikeByName("ApexClass", <<"A">>)>>,
     <<LikeByType(CustomField, <<"A", ".", "F">>)>>,
     <<LikeByName("StaticResource", <<"b">>)>> >>

NumFilters == Len(Filters)

\* the filter argument made of a ComponentSet whose index is comps
FilterOf(comps) == [on |-> TRUE, components |-> comps]

\* resolver.resolveSource(fsPaths, filter), and the returned set read to its
\* end by the caller
ResolveSourceFiltered(k) ==
  LET f == flushComponents(<<>>, resolveSource(givenPaths,
                                               FilterOf(addAll(<<>>, Filters[k])),
                                               ignoreRoots, treeHasBad))
  IN /\ nCalls < MaxCalls
     /\ nCalls' = nCalls + 1
     /\ delivered' = f.yielded
     /\ rerror' = f.error
     /\ rcall' = [op |-> "resolveSourceFiltered", path |-> <<>>]
     /\ usedFilter' = FilterOf(addAll(<<>>, Filters[k]))
     /\ targetBefore' = target
     /\ UNCHANGED <<givenPaths, ignoreRoots, treeHasBad, target, once, twice>>
     /\ UNCHANGED <<tvars, svars, mvars, dvars, nvars, xvars, wvars, gvars, kvars, ivars, pvars>>

\* the function resolveSource on its options form: `filter` is declared and
\* never assigned, input.inclusiveFilter is not read
resolveSourceOptions(fsPaths, inclusiveFilter, deniedRoots, withBad) ==
  resolveSource(fsPaths, NoFilter, deniedRoots, withBad)

\* resolveSource({fsPaths, inclusiveFilter}), and the returned set read to
\* its end by the caller
ResolveSourceOptions(k) ==
  LET f == flushComponents(<<>>, resolveSourceOptions(givenPaths,
                                               FilterOf(addAll(<<>>, Filters[k])),
                                               ignoreRoots, treeHasBad))
  IN /\ nCalls < MaxCalls
     /\ nCalls' = nCalls + 1
     /\ delivered' = f.yielded
     /\ rerror' = f.error
     /\ rcall' = [op |-> "resolveSourceOptions", path |-> <<>>]
     /\ usedFilter' = FilterOf(addAll(<<>>, Filters[k]))
     /\ targetBefore' = target
     /\ UNCHANGED <<givenPaths, ignoreRoots, treeHasBad, target, once, twice>>
     /\ UNCHANGED <<tvars, svars, mvars, dvars, nvars, xvars, wvars, gvars, kvars, ivars, pvars>>

----------------------------------------------------------------------------
(* SourceComponent.fullName, in the two classes of the source             *)

\* the fullName getter of the SourceComponent class of metadataResolver.ts
fullNameOfName(c) == c.name

\* the fullName getter of the class cls
fullNameIn(cls, c) ==
  IF cls = "part_000" THEN FullName(c) ELSE fullNameOfName(c)

RECURSIVE withChildren(_, _, _)
\* the components cs, each followed by what getChildren returns for it
withChildren(cs, deniedRoots, withBad) ==
  IF cs = <<>> THEN <<>>
  ELSE <<Head(cs)>> \o getChildren(Head(cs), deniedRoots, withBad)
         \o withChildren(Tail(cs), deniedRoots, withBad)

\* the components cs with the fullName each returns
namesRead(cls, cs) ==
  [i \in 1..Len(cs) |-> [component |-> cs[i], fullName |-> fullNameIn(cls, cs[i])]]

InitFullName ==
  /\ componentClass \in {"part_000", "metadataResolver"}
  /\ namesSeen = <<>>

\* the application resolves the given paths and reads the fullName of every
\* component and of every child
ReadFullNames ==
  /\ namesSeen = <<>>
  /\ namesSeen' =
       namesRead(componentClass,
                 withChildren(flushComponents(<<>>, resolveSource(givenPaths, NoFilter,
                                                ignoreRoots, treeHasBad)).yielded,
                              ignoreRoots, treeHasBad))
  /\ UNCHANGED componentClass
  /\ UNCHANGED <<tvars, svars, rvars, mvars, dvars, xvars, wvars, gvars, kvars, ivars, pvars>>

----------------------------------------------------------------------------
(* Manifests                                                               *)

MaxTypes == 2

MaxMembers == 2

\* what the xml parser returns for an element that occurs in its parent: no
\* property when it does not occur, the item itself when it occurs once, an
\* array when it occurs more often
XmlList(items) ==
  [kind |-> IF Len(items) = 0 THEN "absent"
            ELSE IF Len(items) = 1 THEN "one" ELSE "array",
   items |-> items]

\* parseXml(file): Package.types of the parsed manifest, doc being the types
\* elements of the file
parseXml(doc) ==
  XmlList([i \in 1..Len(doc) |->
             [name |-> doc[i].name, members |-> XmlList(doc[i].members)]])

\* j2x.parse(getObject()): the types elements of the document written
j2xParse(types) == types

\* utils normalizeToArray: the array, the single item as an array, no item
normalizeToArray(x) == x.items

\* fullName.includes('/')
IncludesSlash(fullName) == \E i \in 1..Len(fullName) : fullName[i] = SEP

\* the member of a types entry, the type never replaced by its folder type
MemberOfListedType(typeName, fullName) ==
  LikeByType(getTypeByName(typeName), fullName)

\* the member {fullName, type} of a types entry: the folder type stands in
\* for a type in folders when the name has no '/'
MemberOf(typeName, fullName) ==
  LikeByType(IF getTypeByName(typeName).folderType # "" /\ ~IncludesSlash(fullName)
               THEN getTypeByName(getTypeByName(typeName).folderType)
               ELSE getTypeByName(typeName),
             fullName)

\* the members of one types entry
MembersOfEntry(typeName, fullNames) ==
  [j \in 1..Len(fullNames) |-> MemberOf(typeName, fullNames[j])]

RECURSIVE MembersOfEntries(_)
\* the members of the entries, in order
MembersOfEntries(typeMembers) ==
  IF typeMembers = <<>> THEN <<>>
  ELSE MembersOfEntry(Head(typeMembers).name, Head(typeMembers).members.items)
         \o MembersOfEntries(Tail(typeMembers))

\* `Array.isArray(members) ? members : [members]`: a types entry without
\* members gives the array of undefined
MembersArray(listed) ==
  IF listed.kind = "absent" THEN <<UndefinedName>> ELSE listed.items

\* the items ended by a throw
Thrown(items) == items # <<>> /\ items[Len(items)].form = "throw"

RECURSIVE ManifestMembers(_, _)
\* the inner loop of getComponentsFromManifestObject: fullName.includes of
\* an undefined fullName, asked for a type in folders, throws a TypeError
ManifestMembers(typeName, fullNames) ==
  IF fullNames = <<>> THEN <<>>
  ELSE IF getTypeByName(typeName).folderType # "" /\ Head(fullNames) = UndefinedName
    THEN <<Throw("TypeError")>>
  ELSE <<MemberOf(typeName, Head(fullNames))>>
         \o ManifestMembers(typeName, Tail(fullNames))

RECURSIVE ManifestComponents(_)
\* the outer loop of getComponentsFromManifestObject
ManifestComponents(typeMembers) ==
  IF typeMembers = <<>> THEN <<>>
  ELSE IF Thrown(ManifestMembers(Head(typeMembers).name,
                                 MembersArray(Head(typeMembers).members)))
    THEN ManifestMembers(Head(typeMembers).name, MembersArray(Head(typeMembers).members))
  ELSE ManifestMembers(Head(typeMembers).name, MembersArray(Head(typeMembers).members))
         \o ManifestComponents(Tail(typeMembers))

\* ComponentSet.getComponentsFromManifestObject: what the generator yields,
\* the error it throws being the last item; a manifest without types entry
\* makes it throw
getComponentsFromManifestObject(types) ==
  IF types.kind = "absent" THEN <<Throw("TypeError")>>
  ELSE ManifestComponents(types.items)

\* ManifestResolver.resolve: the components of the result
resolveManifest(doc) == MembersOfEntries(normalizeToArray(parseXml(doc)))

\* the components fromManifestFile adds to the returned set
AddedToSet(comps, shouldResolve, literal) ==
  SelectSeq(comps, LAMBDA c : c.fullName # WILDCARD \/ literal \/ ~shouldResolve)

\* the set after ws.resolveSourceComponents(fsPath, {tree, filter}) when the
\* iteration of the resolved set did f
ResolvedInto(comps, f) == [components |-> addAll(comps, f.yielded), error |-> f.error]

RECURSIVE resolveAll(_, _, _)
\* the loop over toResolve
resolveAll(comps, toResolve, filterSet) ==
  IF toResolve = <<>> THEN [components |-> comps, error |-> "none"]
  ELSE LET r == ResolvedInto(comps,
                  flushComponents(<<>>, resolveSource(<<Head(toResolve)>>,
                                                      FilterOf(filterSet), {}, FALSE)))
       IN IF r.error # "none" THEN r
          ELSE resolveAll(r.components, Tail(toResolve), filterSet)

\* fromManifestFile once the manifest is read: comps are the components of
\* the manifest
FromComponents(comps, resolve, literal) ==
  IF resolve.given
    THEN resolveAll(addAll(<<>>, AddedToSet(comps, TRUE, literal)), resolve.paths,
                    addAll(<<>>, comps))
    ELSE [components |-> addAll(<<>>, comps), error |-> "none"]

\* ComponentSet.fromManifestFile: the index of the returned set and the error
fromManifestFile(doc, resolve, literal) ==
  IF Thrown(getComponentsFromManifestObject(parseXml(doc)))
    THEN [components |-> <<>>, error |-> "TypeError"]
    ELSE FromComponents(getComponentsFromManifestObject(parseXml(doc)), resolve, literal)

\* the type getObject lists a component under
ListedType(c) ==
  IF c.type.folderContentType # ""
    THEN getTypeByName(c.type.folderContentType) ELSE c.type

RECURSIVE typeMapOf(_, _)
\* the typeMap of getObject after the loop over the components cs
typeMapOf(typeMap, cs) ==
  IF cs = <<>> THEN typeMap
  ELSE typeMapOf(
         MapSet(typeMap, ListedType(Head(cs)).name,
                Append(IF MapHas(typeMap, ListedType(Head(cs)).name)
                         THEN MapGet(typeMap, ListedType(Head(cs)).name) ELSE <<>>,
                       FullName(Head(cs)))),
         Tail(cs))

\* ComponentSet.getObject: Package.types
getObject(comps) ==
  [i \in 1..Len(typeMapOf(<<>>, yieldEntries(comps))) |->
     [name |-> typeMapOf(<<>>, yieldEntries(comps))[i].k,
      members |-> typeMapOf(<<>>, yieldEntries(comps))[i].v]]

\* ---- the operations

\* the types entries manifests are made of
ManifestEntries ==
  {[name |-> "ApexClass", members |-> <<WILDCARD>>],
   [name |-> "ApexClass", members |-> << <<"B">> >>],
   [name |-> "Widget", members |-> <<WILDCARD>>],
   [name |-> "CustomField", members |-> <<WILDCARD>>],
   [name |-> "Report", members |-> << <<"MyFolder">>, <<"MyFolder", SEP, "R">> >>],
   [name |-> "ApexClass", members |-> <<>>],
   [name |-> "Report", members |-> <<>>]}

\* the values of the resolve option: none, or one path
ResolveOptions ==
  {[given |-> FALSE, paths |-> <<>>]}
    \cup {[given |-> TRUE, paths |-> <<p>>] :
            p \in {<<Dir("classes")>>, <<Dir("widgets")>>, <<Dir("objects")>>,
                   <<Dir("classes"), ContentFile("A", "cls")>>}}

\* the components sets are constructed on
ManifestUniverse ==
  {LikeByName("ApexClass", <<"A">>), LikeByType(Widget, <<"A">>), ObjA1, FieldF,
   LikeByType(ReportFolder, <<"MyFolder">>),
   LikeByType(ReportFolder, <<"MyFolder", SEP, "Sub">>),
   LikeByType(Report, <<"MyFolder", SEP, "R">>),
   LikeByType(Report, <<"R">>)}

NoManifestCall == [op |-> "none"]

InitManifest ==
  /\ manifest \in UNION {[1..n -> ManifestEntries] : n \in 1..MaxTypes}
  /\ resolveOpt \in ResolveOptions
  /\ literalWildcard \in BOOLEAN
  /\ members = <<>>
  /\ ws = <<>>
  /\ wsError = "none"
  /\ pkg = <<>>
  /\ resolvedMembers = <<>>
  /\ mcall = NoManifestCall

InitPackage ==
  /\ manifest = <<>>
  /\ resolveOpt = [given |-> FALSE, paths |-> <<>>]
  /\ literalWildcard = FALSE
  /\ members \in UNION {[1..n -> ManifestUniverse] : n \in 1..MaxMembers}
  /\ ws = <<>>
  /\ wsError = "none"
  /\ pkg = <<>>
  /\ resolvedMembers = <<>>
  /\ mcall = NoManifestCall

\* ComponentSet.fromManifestFile(fsPath, {resolve, literalWildcard})
FromManifestFile ==
  /\ mcall.op = "none"
  /\ ws' = fromManifestFile(manifest, resolveOpt, literalWildcard).components
  /\ wsError' = fromManifestFile(manifest, resolveOpt, literalWildcard).error
  /\ mcall' = [op |-> "fromManifestFile"]
  /\ UNCHANGED <<manifest, resolveOpt, literalWildcard, members, pkg, resolvedMembers>>
  /\ UNCHANGED <<tvars, svars, rvars, dvars, nvars, xvars, wvars, gvars, kvars, ivars, pvars>>

\* new ComponentSet(members).getPackageXml() written to a file, and
\* ManifestResolver.resolve of that file
PackageRoundTrip ==
  /\ mcall.op = "none"
  /\ pkg' = getObject(addAll(<<>>, members))
  /\ resolvedMembers' = resolveManifest(j2xParse(getObject(addAll(<<>>, members))))
  /\ mcall' = [op |-> "getPackageXml"]
  /\ UNCHANGED <<manifest, resolveOpt, literalWildcard, members, ws, wsError>>
  /\ UNCHANGED <<tvars, svars, rvars, dvars, nvars, xvars, wvars, gvars, kvars, ivars, pvars>>

----------------------------------------------------------------------------
(* DeployResult: the file responses of a deploy                            *)

MaxFailures == 2

MaxSuccesses == 2

\* the text the api puts in front of the fullName of a bundle
MARKUP_PREFIX == "markup://c:"

\* a DeployMessage of the api
DeployMessage(fullName, componentType, created, changed, deleted, success) ==
  [fullName |-> fullName, componentType |-> componentType, created |-> created,
   changed |-> changed, deleted |-> deleted, success |-> success]

\* text.replace(/markup:\/\/c:/, ''): the first occurrence is removed
RemoveFirstMarkup(text) ==
  IF \E i \in 1..Len(text) : text[i] = MARKUP_PREFIX
    THEN LET i == CHOOSE j \in 1..Len(text) :
                    text[j] = MARKUP_PREFIX /\ \A k \in 1..(j - 1) : text[k] # MARKUP_PREFIX
         IN SubSeq(text, 1, i - 1) \o SubSeq(text, i + 1, Len(text))
    ELSE text

\* DeployResult.sanitizeDeployMessage
sanitizeDeployMessage(message) ==
  [message EXCEPT !.fullName = RemoveFirstMarkup(@)]

\* DeployResult.getState
getState(message) ==
  IF message.created = "true" THEN "Created"
  ELSE IF message.changed = "true" THEN "Changed"
  ELSE IF message.deleted = "true" THEN "Deleted"
  ELSE IF message.success = "false" THEN "Failed"
  ELSE "Unchanged"

\* `${fullName}#${type}`
MessageKey(fullName, type) == fullName \o <<"#", type>>

\* messageMap.get(key).push(message), the entry made when it is missing
PushMessage(messageMap, key, message) ==
  MapSet(messageMap, key,
         Append(IF MapHas(messageMap, key) THEN MapGet(messageMap, key) ELSE <<>>,
                message))

RECURSIVE FailedComponents(_)
\* the set failedComponents after the loop over the failure messages
FailedComponents(failureMessages) ==
  IF failureMessages = <<>> THEN <<>>
  ELSE add(FailedComponents(SubSeq(failureMessages, 1, Len(failureMessages) - 1)),
           LikeByName(failureMessages[Len(failureMessages)].componentType,
                      sanitizeDeployMessage(failureMessages[Len(failureMessages)]).fullName))

RECURSIVE MapOfFailures(_)
\* messageMap after the loop over the failure messages
MapOfFailures(failureMessages) ==
  IF failureMessages = <<>> THEN <<>>
  ELSE PushMessage(MapOfFailures(SubSeq(failureMessages, 1, Len(failureMessages) - 1)),
                   MessageKey(sanitizeDeployMessage(failureMessages[Len(failureMessages)]).fullName,
                              failureMessages[Len(failureMessages)].componentType),
                   sanitizeDeployMessage(failureMessages[Len(failureMessages)]))

\* the test `!failedComponents.has({ fullName, type })` on a success message
keepsSuccess(failedComponents, sanitized) ==
  ~has(failedComponents, LikeByName(sanitized.componentType, sanitized.fullName))

RECURSIVE MapWithSuccesses(_, _, _)
\* messageMap after the loop over the success messages
MapWithSuccesses(messageMap, failedComponents, successMessages) ==
  IF successMessages = <<>> THEN messageMap
  ELSE MapWithSuccesses(
         IF keepsSuccess(failedComponents, sanitizeDeployMessage(Head(successMessages)))
           THEN PushMessage(messageMap,
                            MessageKey(sanitizeDeployMessage(Head(successMessages)).fullName,
                                       Head(successMessages).componentType),
                            sanitizeDeployMessage(Head(successMessages)))
           ELSE messageMap,
         failedComponents, Tail(successMessages))

\* DeployResult.getDeployMessages
getDeployMessages(failureMessages, successMessages) ==
  MapWithSuccesses(MapOfFailures(failureMessages), FailedComponents(failureMessages),
                   successMessages)

\* SourceComponent.walkContent
walkContent(c, deniedRoots, withBad) ==
  IF c.content # <<>>
    THEN SelectSeq(walk(c.content, deniedRoots, withBad), LAMBDA fsPath : fsPath # c.xml)
    ELSE <<>>

\* a FileResponse
FileResponse(c, state, filePath) ==
  [fullName |-> FullName(c), type |-> c.type.name, state |-> state,
   filePath |-> filePath]

\* createResponses: the else branch, the responses of a message that is not
\* a failure
successResponses(c, state) ==
  (IF c.content # <<>> /\ c.type.children = <<>>
     THEN [i \in 1..Len(walkContent(c, {}, FALSE)) |->
             FileResponse(c, state, walkContent(c, {}, FALSE)[i])]
     ELSE <<>>)
    \o (IF c.xml # <<>> THEN <<FileResponse(c, state, c.xml)>> ELSE <<>>)

\* createResponses: the responses of one message; on a failure filePath is
\* the xml of a component without content, and absent otherwise
responsesOfMessage(c, message) ==
  IF getState(message) = "Failed"
    THEN <<FileResponse(c, "Failed",
                        IF c.xml # <<>> /\ c.content = <<>> THEN c.xml ELSE <<>>)>>
    ELSE successResponses(c, getState(message))

RECURSIVE createResponses(_, _)
\* DeployResult.createResponses
createResponses(c, messages) ==
  IF messages = <<>> THEN <<>>
  ELSE responsesOfMessage(c, Head(messages)) \o createResponses(c, Tail(messages))

\* `messages.get(key)` and createResponses when there are messages
responsesOf(c, messageMap) ==
  IF MapHas(messageMap, MessageKey(FullName(c), c.type.name))
    THEN createResponses(c, MapGet(messageMap, MessageKey(FullName(c), c.type.name)))
    ELSE <<>>

RECURSIVE responsesOfAll(_, _)
\* the responses of the components cs, in order
responsesOfAll(cs, messageMap) ==
  IF cs = <<>> THEN <<>>
  ELSE responsesOf(Head(cs), messageMap) \o responsesOfAll(Tail(cs), messageMap)

\* the body of the loop of getFileResponses: the children, then the component
responsesOfDeployed(c, messageMap) ==
  (IF c.type.children # <<>>
     THEN responsesOfAll(getChildren(c, {}, FALSE), messageMap) ELSE <<>>)
    \o responsesOf(c, messageMap)

RECURSIVE responsesOfEveryDeployed(_, _)
\* the loop of getFileResponses over the source components
responsesOfEveryDeployed(cs, messageMap) ==
  IF cs = <<>> THEN <<>>
  ELSE responsesOfDeployed(Head(cs), messageMap)
         \o responsesOfEveryDeployed(Tail(cs), messageMap)

\* DeployResult.getFileResponses on the set of index comps
getFileResponses(comps, failureMessages, successMessages) ==
  responsesOfEveryDeployed(SelectSources(iterate(comps, <<>>)),
                           getDeployMessages(failureMessages, successMessages))

\* ---- the operations

\* the set that was deployed: what the directories of the tree resolve to
DeployedComponents ==
  addAll(<<>>, flushComponents(<<>>,
    resolveSource(<< <<Dir("classes")>>, <<Dir("lwc")>>, <<Dir("objects")>>,
                     <<Dir("staticresources")>>, <<Dir("widgets")>> >>,
                  NoFilter, {}, FALSE)).yielded)

Failure(fullName, componentType) ==
  DeployMessage(fullName, componentType, "false", "false", "false", "false")

\* the failures the api reports, the last ones with a flag created or
\* changed set
FailureMessages ==
  {Failure(<<"A">>, "ApexClass"), Failure(<<MARKUP_PREFIX, "foo">>, "LightningComponentBundle"),
   Failure(<<"A", ".", "F">>, "CustomField"), Failure(<<"W">>, "Widget"),
   DeployMessage(<<"A">>, "ApexClass", "true", "false", "false", "false"),
   DeployMessage(<<"W">>, "Widget", "false", "true", "false", "false")}

\* the successes the api reports, the last one for a component that is not
\* in the set
SuccessMessages ==
  {DeployMessage(<<"A">>, "ApexClass", "true", "false", "false", "true"),
   DeployMessage(<<"foo">>, "LightningComponentBundle", "false", "true", "false", "true"),
   DeployMessage(<<"A">>, "CustomObject", "false", "false", "false", "true"),
   DeployMessage(<<"A", ".", "F">>, "CustomField", "true", "false", "false", "true"),
   DeployMessage(<<"a">>, "StaticResource", "false", "false", "true", "true"),
   DeployMessage(<<"W">>, "Widget", "false", "true", "false", "true"),
   DeployMessage(<<"Z">>, "ApexClass", "true", "false", "false", "true")}

InitDeployResult ==
  /\ deployed = DeployedComponents
  /\ componentFailures \in UNION {[1..n -> FailureMessages] : n \in 0..MaxFailures}
  /\ componentSuccesses \in UNION {[1..n -> SuccessMessages] : n \in 0..MaxSuccesses}
  /\ fileResponses = <<>>
  /\ responded = FALSE
  /\ reported = [failures |-> componentFailures, successes |-> componentSuccesses]

\* the messages after getDeployMessages: sanitizeDeployMessage assigns the
\* fullName of the message it is given
sanitizedInPlace(messages) ==
  [i \in 1..Len(messages) |-> sanitizeDeployMessage(messages[i])]

\* new DeployResult(response, components).getFileResponses(), called any
\* number of times; the messages of the response are left sanitized
GetFileResponses ==
  /\ responded' = TRUE
  /\ fileResponses' = getFileResponses(deployed, componentFailures, componentSuccesses)
  /\ componentFailures' = sanitizedInPlace(componentFailures)
  /\ componentSuccesses' = sanitizedInPlace(componentSuccesses)
  /\ UNCHANGED <<deployed, reported>>
  /\ UNCHANGED <<tvars, svars, rvars, mvars, nvars, xvars, wvars, gvars, kvars, ivars, pvars>>

----------------------------------------------------------------------------
(* DefaultMetadataTransformer                                              *)

MaxConversions == 3

\* common DEFAULT_PACKAGE_ROOT_SFDX: the default package root of the source
\* layout
DEFAULT_PACKAGE_ROOT_SFDX == <<Dir("main"), Dir("default")>>

\* utils/path trimUntil: the path from its first segment equal to name on,
\* the whole path when it has none
trimUntil(p, name) ==
  IF IndexOf(p, name) # -1 THEN SubSeq(p, IndexOf(p, name) + 1, Len(p)) ELSE p

\* SourceComponent.getPackageRelativePath
getPackageRelativePath(c, fsPath, format) ==
  LET relativePath ==
        IF c.type.suffix = ""
          THEN trimUntil(fsPath, Dir(c.type.directoryName))
        ELSE IF c.type.folderType # "" \/ c.type.inFolder
          THEN <<Dir(c.type.directoryName), SplitOn(FullName(c), SEP)[1],
                 basename(fsPath)>>
        ELSE <<Dir(c.type.directoryName), basename(fsPath)>>
  IN IF format = "source" THEN DEFAULT_PACKAGE_ROOT_SFDX \o relativePath
     ELSE relativePath

\* String.lastIndexOf: the index from 0 of the last occurrence, -1 without one
lastIndexOf(text, pattern) ==
  LET at == {i \in 1..(Len(text) - Len(pattern) + 1) :
               SubSeq(text, i, i + Len(pattern) - 1) = pattern}
  IN IF at = {} THEN -1 ELSE (CHOOSE i \in at : \A j \in at : j <= i) - 1

\* a token without its last character; the tokens named are those a path of
\* the model can end with, any other token is a single character
WithoutLastCharacter(token) ==
  CASE token = "widget" -> <<"widge">>
    [] token = "widge" -> <<"widg">>
    [] token = "widg" -> <<"wid">>
    [] token = "field" -> <<"fiel">>
    [] token = "fiel" -> <<"fie">>
    [] token = "fie" -> <<"fi">>
    [] token = "report" -> <<"repor">>
    [] token = "repor" -> <<"repo">>
    [] token = "repo" -> <<"rep">>
    [] token = "reportFolder" -> <<"reportFolde">>
    [] token = "reportFolde" -> <<"reportFold">>
    [] token = "reportFold" -> <<"reportFol">>
    [] OTHER -> <<>>

\* String.slice(0, end): a negative end counts characters from the end of the text
sliceTo(text, end) ==
  IF end >= 0 THEN SubSeq(text, 1, end)
  ELSE IF text = <<>> THEN <<>>
  ELSE SubSeq(text, 1, Len(text) - 1) \o WithoutLastCharacter(text[Len(text)])

\* DefaultMetadataTransformer.getXmlDestination; mergeWith is <<>> when not given
getXmlDestination(targetFormat, c, mergeWith) ==
  LET xmlDestination ==
        IF mergeWith # <<>> /\ mergeWith[1].xml # <<>>
          THEN PathText(mergeWith[1].xml)
          ELSE PathText(getPackageRelativePath(c, c.xml, targetFormat))
  IN IF c.content = <<>>
       THEN IF targetFormat = "metadata"
              THEN sliceTo(xmlDestination, lastIndexOf(xmlDestination, META_XML_SUFFIX))
              ELSE xmlDestination \o META_XML_SUFFIX
       ELSE xmlDestination

\* DefaultMetadataTransformer.getContentSourceDestination
getContentSourceDestination(source, targetFormat, c, mergeWith) ==
  IF mergeWith # <<>>
    THEN IF isDirectory(c.content)
           THEN PathText(dirname(mergeWith[1].content)
                           \o trimUntil(source, basename(c.content)))
           ELSE PathText(mergeWith[1].content)
    ELSE PathText(getPackageRelativePath(c, source, targetFormat))

\* the writeInfos of the content files of a component
contentWriteInfos(c, targetFormat, mergeWith, sources) ==
  [i \in 1..Len(sources) |->
     [source |-> sources[i],
      output |-> getContentSourceDestination(sources[i], targetFormat, c, mergeWith)]]

\* DefaultMetadataTransformer.getWriterFormat
getWriterFormat(c, targetFormat, mergeWith) ==
  [component |-> c,
   writeInfos |->
     (IF c.content # <<>>
        THEN contentWriteInfos(c, targetFormat, mergeWith, walkContent(c, {}, FALSE))
        ELSE <<>>)
     \o (IF c.xml # <<>>
           THEN <<[source |-> c.xml,
                   output |-> getXmlDestination(targetFormat, c, mergeWith)]>>
           ELSE <<>>)]

\* the component read back where a component of an xml alone was written:
\* none when the resolver infers no type, or another type, for the file
\* written; else the same component, its xml the file written
WrittenComponent(c, writerFormat) ==
  IF c.content = <<>> /\ c.xml # <<>>
    THEN IF resolveType(SplitOn(writerFormat.writeInfos[1].output, SEP)) = c.type
           THEN [c EXCEPT !.xml = SplitOn(writerFormat.writeInfos[1].output, SEP)]
           ELSE Undefined
    ELSE c

\* ---- the operations

\* components in folders, which the tree of the model has none of
FolderComponents ==
  <<SourceComponent(Report, <<"MyFolder", SEP, "R">>,
                    <<Dir("reports"), Dir("MyFolder"), MetaXml("R", "report")>>,
                    <<>>, <<>>),
    SourceComponent(ReportFolder, <<"MyFolder">>,
                    <<Dir("reports"), MetaXml("MyFolder", "reportFolder")>>,
                    <<>>, <<>>)>>

\* the components of the workspace: what the directories of the tree resolve
\* to, their children, and the components in folders
WorkspaceComponents ==
  withChildren(flushComponents(<<>>,
      resolveSource(<< <<Dir("classes")>>, <<Dir("lwc")>>, <<Dir("objects")>>,
                       <<Dir("staticresources")>>, <<Dir("widgets")>> >>,
                    NoFilter, {}, FALSE)).yielded, {}, FALSE)
    \o FolderComponents

InitTransformer ==
  /\ original \in {WorkspaceComponents[i] : i \in 1..Len(WorkspaceComponents)}
  /\ converting = original
  /\ writerFormats = <<>>

\* one conversion of the component at hand; a next one is given the
\* component read back from what this one wrote, when there is one
Converted(targetFormat, mergeWith) ==
  /\ Len(writerFormats) < MaxConversions
  /\ converting # Undefined
  /\ writerFormats' =
       Append(writerFormats,
              [targetFormat |-> targetFormat, merged |-> mergeWith # <<>>,
               format |-> getWriterFormat(converting, targetFormat, mergeWith)])
  /\ converting' =
       WrittenComponent(converting, getWriterFormat(converting, targetFormat, mergeWith))
  /\ UNCHANGED original
  /\ UNCHANGED <<tvars, svars, rvars, mvars, dvars, nvars, wvars, gvars, kvars, ivars, pvars>>

\* DefaultMetadataTransformer.toMetadataFormat
ToMetadataFormat == Converted("metadata", <<>>)

\* DefaultMetadataTransformer.toSourceFormat, with or without mergeWith
ToSourceFormat(merge) ==
  Converted("source", IF merge THEN <<original>> ELSE <<>>)

----------------------------------------------------------------------------
(* convertSource and SimpleTransformer                                     *)

MaxComponents == 2

\* the files a component of the model has at most: its xml and one source
MaxCopies == 2

\* the argument destination
Destination == <<Dir("out")>>

\* MetadataComponent.sources
sourcesOf(c) == walkContent(c, {}, FALSE)

\* the xmlDest of SimpleTransformer.toApiFormat
xmlDestOf(c, dest) ==
  LET xmlDest == PathText(dest \o trimUntil(c.xml, Dir(c.type.directoryName)))
  IN IF Len(sourcesOf(c)) = 0
       THEN sliceTo(xmlDest, lastIndexOf(xmlDest, META_XML_SUFFIX))
       ELSE xmlDest

\* the sourceDest of each source
sourceDestsOf(c, dest, sources) ==
  [i \in 1..Len(sources) |->
     [src |-> sources[i],
      dest |-> PathText(dest \o trimUntil(sources[i], Dir(c.type.directoryName)))]]

\* the copies toApiFormat makes, in the order it makes them
copiesOf(c, dest) ==
  <<[src |-> c.xml, dest |-> xmlDestOf(c, dest)]>> \o sourceDestsOf(c, dest, sourcesOf(c))

\* fileSystemHandler ensureFileExists: the file is created empty unless it exists
ensureFileExists(files, dest) ==
  IF MapHas(files, dest) THEN files ELSE MapSet(files, dest, "incomplete")

RECURSIVE ensureFilesExist(_, _)
ensureFilesExist(files, copies) ==
  IF copies = <<>> THEN files
  ELSE ensureFilesExist(ensureFileExists(files, Head(copies).dest), Tail(copies))

\* the copy jobs pushed for the first made copies of component i
jobsOf(i, copies, made) ==
  [k \in 1..made |->
     [component |-> i, src |-> copies[k].src, dest |-> copies[k].dest,
      state |-> "running"]]

\* the components given to convertSource: those the tree resolves to
ConvertibleComponents ==
  SelectSeq(WorkspaceComponents, LAMBDA c : c.parent = <<>>)

NoRepeat(s) == \A i, j \in 1..Len(s) : s[i] = s[j] => i = j

InitConvert ==
  /\ toConvert \in {s \in UNION {[1..n -> {ConvertibleComponents[i] :
                                             i \in 1..Len(ConvertibleComponents)}] :
                                   n \in 0..MaxComponents} : NoRepeat(s)}
  /\ position = 0
  /\ copyJobs = <<>>
  /\ destFiles = <<>>
  /\ metadataFormat = <<>>
  /\ convertOutcome = "none"

\* the loop of convertSource has no component left: it returns metadataFormat
AtComponent(i) == IF i > Len(toConvert) THEN "resolved" ELSE "pending"

\* convertSource(sourceFormat, destination) is called
ConvertSource ==
  /\ convertOutcome = "none"
  /\ position' = 1
  /\ convertOutcome' = AtComponent(1)
  /\ UNCHANGED <<toConvert, copyJobs, destFiles, metadataFormat>>
  /\ UNCHANGED <<tvars, svars, rvars, mvars, dvars, nvars, xvars, gvars, kvars, ivars, pvars>>

CallPending ==
  /\ convertOutcome = "pending"
  /\ \A j \in 1..Len(copyJobs) : copyJobs[j].component # position

\* toApiFormat of the component at hand: ensureDirectoryExists throws
EnsureDirectoryFails ==
  /\ CallPending
  /\ convertOutcome' = "rejected"
  /\ UNCHANGED <<toConvert, position, copyJobs, destFiles, metadataFormat>>
  /\ UNCHANGED <<tvars, svars, rvars, mvars, dvars, nvars, xvars, gvars, kvars, ivars, pvars>>

\* the copies started when ensureFileExists throws at copy failedAt, all of
\* them when failedAt is 0
madeCopies(copies, failedAt) ==
  IF failedAt = 0 THEN copies ELSE SubSeq(copies, 1, failedAt - 1)

\* toApiFormat of the component at hand up to its await: each copy creates
\* its file and starts its pipeline; ensureFileExists of copy failedAt throws
ToApiFormat(failedAt) ==
  /\ CallPending
  /\ failedAt <= Len(copiesOf(toConvert[position], Destination))
  /\ destFiles' =
       ensureFilesExist(destFiles,
                        madeCopies(copiesOf(toConvert[position], Destination), failedAt))
  /\ copyJobs' =
       copyJobs \o jobsOf(position, copiesOf(toConvert[position], Destination),
                          Len(madeCopies(copiesOf(toConvert[position], Destination),
                                         failedAt)))
  /\ convertOutcome' = IF failedAt = 0 THEN "pending" ELSE "rejected"
  /\ UNCHANGED <<toConvert, position, metadataFormat>>
  /\ UNCHANGED <<tvars, svars, rvars, mvars, dvars, nvars, xvars, gvars, kvars, ivars, pvars>>

\* the pipeline of a copy ends: the file is written
CopyEnds(j) ==
  /\ j <= Len(copyJobs)
  /\ copyJobs[j].state = "running"
  /\ copyJobs' = [copyJobs EXCEPT ![j].state = "done"]
  /\ destFiles' = MapSet(destFiles, copyJobs[j].dest, "whole")
  /\ UNCHANGED <<toConvert, position, metadataFormat, convertOutcome>>
  /\ UNCHANGED <<tvars, svars, rvars, mvars, dvars, nvars, xvars, gvars, kvars, ivars, pvars>>

\* the pipeline of a copy fails: Promise.all rejects, toApiFormat rethrows and
\* convertSource rejects; the file stays as it is and the other pipelines run on
CopyFails(j) ==
  /\ j <= Len(copyJobs)
  /\ copyJobs[j].state = "running"
  /\ copyJobs' = [copyJobs EXCEPT ![j].state = "failed"]
  /\ convertOutcome' = IF convertOutcome = "pending" THEN "rejected" ELSE convertOutcome
  /\ UNCHANGED <<toConvert, position, destFiles, metadataFormat>>
  /\ UNCHANGED <<tvars, svars, rvars, mvars, dvars, nvars, xvars, gvars, kvars, ivars, pvars>>

\* Promise.all resolves: toApiFormat returns the component and the loop of
\* convertSource goes on
ToApiFormatReturns ==
  /\ convertOutcome = "pending"
  /\ \E j \in 1..Len(copyJobs) : copyJobs[j].component = position
  /\ \A j \in 1..Len(copyJobs) :
       copyJobs[j].component = position => copyJobs[j].state = "done"
  /\ metadataFormat' = Append(metadataFormat, toConvert[position])
  /\ position' = position + 1
  /\ convertOutcome' = AtComponent(position + 1)
  /\ UNCHANGED <<toConvert, copyJobs, destFiles>>
  /\ UNCHANGED <<tvars, svars, rvars, mvars, dvars, nvars, xvars, gvars, kvars, ivars, pvars>>

----------------------------------------------------------------------------
(* GitFileContainer and BaseFileContainer.find                             *)

MaxObjects == 3

MaxFetches == 2

\* Set.add on a set kept in insertion order
SetAdd(s, x) == IF \E i \in 1..Len(s) : s[i] = x THEN s ELSE Append(s, x)

RECURSIVE ensureTreeExists(_, _)
\* the local ensureTreeExists of addObject; dirname of a path of one segment
\* is ".", the empty path here, which is its own dirname
ensureTreeExists(tree, path) ==
  IF MapHas(tree, path) THEN tree
  ELSE LET withParent == ensureTreeExists(MapSet(tree, path, <<>>), dirname(path))
       IN MapSet(withParent, dirname(path),
                 SetAdd(MapGet(withParent, dirname(path)), path))

\* GitFileContainer.addObject
addObject(tree, objectPath) ==
  LET ensured == ensureTreeExists(tree, dirname(objectPath))
  IN MapSet(ensured, dirname(objectPath),
            SetAdd(MapGet(ensured, dirname(objectPath)), objectPath))

RECURSIVE addObjects(_, _)
\* fetchGithubTree / fetchLocalTree: addObject for every blob of the listing
addObjects(tree, objects) ==
  IF objects = <<>> THEN tree
  ELSE addObjects(addObject(tree, Head(objects)), Tail(objects))

\* what a call returned (outcome "true", "false", "names", "path" or
\* "undefined") or the error it threw (outcome "TypeError" or "Error")
Outcome(o, f) == [outcome |-> o, found |-> f]

\* GitFileContainer.exists: tree.get of a directory that is no key is
\* undefined, and calling has on it throws a TypeError
gitExists(tree, path) ==
  IF ~MapHas(tree, dirname(path)) THEN Outcome("TypeError", <<>>)
  ELSE IF (\E i \in 1..Len(MapGet(tree, dirname(path))) :
             MapGet(tree, dirname(path))[i] = path) \/ MapHas(tree, path)
    THEN Outcome("true", <<>>)
  ELSE Outcome("false", <<>>)

\* GitFileContainer.isDirectory
gitIsDirectory(tree, path) ==
  IF gitExists(tree, path).outcome = "TypeError" THEN gitExists(tree, path)
  ELSE IF gitExists(tree, path).outcome = "true"
    THEN Outcome(IF MapHas(tree, path) THEN "true" ELSE "false", <<>>)
  ELSE Outcome("Error", <<>>)

\* GitFileContainer.readDir
gitReadDir(tree, path) ==
  IF ~MapHas(tree, path) THEN Outcome("TypeError", <<>>)
  ELSE Outcome("names", [i \in 1..Len(MapGet(tree, path)) |->
                           basename(MapGet(tree, path)[i])])

\* String.startsWith
startsWith(text, prefix) ==
  Len(prefix) <= Len(text) /\ SubSeq(text, 1, Len(prefix)) = prefix

\* the callback of find
isMatch(dir, f, fullName, findMetadataXml) ==
  /\ startsWith(f, fullName)
  /\ IF findMetadataXml THEN parseMetadataXml(join(dir, f)).ok
     ELSE ~parseMetadataXml(join(dir, f)).ok

\* BaseFileContainer.find over what readDir returned
find(dir, names, fullName, findMetadataXml) ==
  LET matching == SelectSeq(names, LAMBDA f : isMatch(dir, f, fullName, findMetadataXml))
  IN IF matching = <<>> THEN Outcome("undefined", <<>>)
     ELSE Outcome("path", join(dir, matching[1]))

\* BaseFileContainer.findContent / findMetadataXml on the git tree
gitFind(tree, dir, fullName, findMetadataXml) ==
  IF gitReadDir(tree, dir).outcome = "TypeError" THEN gitReadDir(tree, dir)
  ELSE find(dir, gitReadDir(tree, dir).found, fullName, findMetadataXml)

\* ---- the operations

\* the blobs a listing is made of
GitFiles ==
  {<<Dir("classes"), <<"A", ".", "cls">> >>,
   <<Dir("classes"), <<"A", ".", "cls">> \o META_XML_SUFFIX>>,
   <<Dir("classes"), <<"A", "B", ".", "cls">> >>,
   <<Dir("classes"), <<"A", "B", ".", "cls">> \o META_XML_SUFFIX>>,
   <<Dir("lwc"), Dir("foo"), <<"foo", ".", "js">> >>}

\* the paths the application asks about
AskedPaths ==
  GitFiles \cup
  {<<Dir("classes")>>, <<Dir("lwc")>>, <<Dir("lwc"), Dir("foo")>>,
   <<Dir("lwc"), Dir("bar"), <<"x", ".", "js">> >>, <<Dir("other")>>,
   <<Dir("classes"), <<"Z", ".", "cls">> >>}

\* the component names the application looks for
AskedNames == {<<"A">>, <<"A", "B">>}

NotAsked ==
  [op |-> "none", path |-> <<>>, name |-> <<>>, outcome |-> "", found |-> <<>>,
   ready |-> FALSE]

\* ready tells that the call was made after an initialize had settled
Asked(op, path, name, o) ==
  [op |-> op, path |-> path, name |-> name, outcome |-> o.outcome, found |-> o.found,
   ready |-> gitReady]

InitGit ==
  /\ listing \in {s \in UNION {[1..n -> GitFiles] : n \in 0..MaxObjects} :
                    \A i, j \in 1..Len(s) : s[i] = s[j] => i = j}
  /\ gitTree = <<>>
  /\ gitReady = FALSE
  /\ fetching = 0
  /\ asked = NotAsked

\* GitFileContainer.initialize('github') up to its await: the tree is
\* cleared and a fetch started, whether or not an earlier initialize still
\* awaits its own
Initialize ==
  /\ fetching < MaxFetches
  /\ fetching' = fetching + 1
  /\ gitReady' = FALSE
  /\ gitTree' = <<>>
  /\ UNCHANGED <<listing, asked>>
  /\ UNCHANGED <<tvars, svars, rvars, mvars, dvars, nvars, xvars, wvars, kvars, ivars, pvars>>

\* fetchGithubTree after its awaits: the blobs of the listing are added to
\* the tree as it is by then
FetchGithubTree ==
  /\ fetching > 0
  /\ fetching' = fetching - 1
  /\ gitReady' = TRUE
  /\ gitTree' = addObjects(gitTree, listing)
  /\ UNCHANGED <<listing, asked>>
  /\ UNCHANGED <<tvars, svars, rvars, mvars, dvars, nvars, xvars, wvars, kvars, ivars, pvars>>

\* fetchGithubTree when the fetch rejects, or answers a body without tree
\* (forEach of undefined): initialize rejects, the tree is left as it is
FetchGithubTreeFails ==
  /\ fetching > 0
  /\ fetching' = fetching - 1
  /\ UNCHANGED <<listing, gitTree, gitReady, asked>>
  /\ UNCHANGED <<tvars, svars, rvars, mvars, dvars, nvars, xvars, wvars, kvars, ivars, pvars>>

\* GitFileContainer.initialize('local'): the tree is cleared and filled from
\* the output of git ls-tree -r before the call returns
InitializeLocal ==
  /\ gitReady' = TRUE
  /\ gitTree' = addObjects(<<>>, listing)
  /\ UNCHANGED <<listing, fetching, asked>>
  /\ UNCHANGED <<tvars, svars, rvars, mvars, dvars, nvars, xvars, wvars, kvars, ivars, pvars>>

\* the calls of the application: they can be made at any time, also on a new
\* container and while an initialize is awaiting its fetch
GitExists(p) ==
  /\ asked' = Asked("exists", p, <<>>, gitExists(gitTree, p))
  /\ UNCHANGED <<listing, gitTree, gitReady, fetching>>
  /\ UNCHANGED <<tvars, svars, rvars, mvars, dvars, nvars, xvars, wvars, kvars, ivars, pvars>>

GitIsDirectory(p) ==
  /\ asked' = Asked("isDirectory", p, <<>>, gitIsDirectory(gitTree, p))
  /\ UNCHANGED <<listing, gitTree, gitReady, fetching>>
  /\ UNCHANGED <<tvars, svars, rvars, mvars, dvars, nvars, xvars, wvars, kvars, ivars, pvars>>

GitReadDir(p) ==
  /\ asked' = Asked("readDir", p, <<>>, gitReadDir(gitTree, p))
  /\ UNCHANGED <<listing, gitTree, gitReady, fetching>>
  /\ UNCHANGED <<tvars, svars, rvars, mvars, dvars, nvars, xvars, wvars, kvars, ivars, pvars>>

\* findContent(dir, fullName) on the directory classes
FindContent(fullName) ==
  /\ asked' = Asked("findContent", <<Dir("classes")>>, fullName,
                    gitFind(gitTree, <<Dir("classes")>>, fullName, FALSE))
  /\ UNCHANGED <<listing, gitTree, gitReady, fetching>>
  /\ UNCHANGED <<tvars, svars, rvars, mvars, dvars, nvars, xvars, wvars, kvars, ivars, pvars>>

\* findMetadataXml(dir, fullName) on the directory classes
FindMetadataXml(fullName) ==
  /\ asked' = Asked("findMetadataXml", <<Dir("classes")>>, fullName,
                    gitFind(gitTree, <<Dir("classes")>>, fullName, TRUE))
  /\ UNCHANGED <<listing, gitTree, gitReady, fetching>>
  /\ UNCHANGED <<tvars, svars, rvars, mvars, dvars, nvars, xvars, wvars, kvars, ivars, pvars>>

----------------------------------------------------------------------------
(* MaxRevision                                                             *)

MaxRev == 2

MaxRevCalls == 3

MaxChanges == 1

\* a number, or undefined / null when set is FALSE
Num(n) == [set |-> TRUE, value |-> n]

NoNum == [set |-> FALSE, value |-> 0]

\* the contents of a config file that did not exist: {}
EmptyContents ==
  [serverMaxRevisionCounter |-> NoNum, hasSourceMembers |-> FALSE, sourceMembers |-> <<>>]

\* a MemberRevision; defined is FALSE for the value undefined
MemberRevision(serverRevisionCounter, lastRetrievedFromServer, memberType, isNameObsolete) ==
  [defined |-> TRUE, serverRevisionCounter |-> serverRevisionCounter,
   lastRetrievedFromServer |-> lastRetrievedFromServer, memberType |-> memberType,
   isNameObsolete |-> isNameObsolete]

UndefinedMember ==
  [defined |-> FALSE, serverRevisionCounter |-> 0, lastRetrievedFromServer |-> NoNum,
   memberType |-> "", isNameObsolete |-> FALSE]

\* sourceMembers[key]: undefined for a key the object does not have
memberAt(sourceMembers, key) ==
  IF MapHas(sourceMembers, key) THEN MapGet(sourceMembers, key) ELSE UndefinedMember

\* MaxRevision.hasSourceMember
hasSourceMember(sourceMembers, key) == memberAt(sourceMembers, key).defined

\* MaxRevision.upsertToJson: the last statement stores sourceMember, which
\* is undefined for a new change whose MemberName is empty
upsertToJson(sourceMembers, change) ==
  IF memberAt(sourceMembers, change.MemberName).defined
    THEN MapSet(sourceMembers, change.MemberName,
                [memberAt(sourceMembers, change.MemberName) EXCEPT
                   !.serverRevisionCounter = change.RevisionCounter,
                   !.memberType = change.MemberType,
                   !.isNameObsolete = change.IsNameObsolete])
  ELSE IF change.MemberName # ""
    THEN MapSet(sourceMembers, change.MemberName,
                MemberRevision(change.RevisionCounter, NoNum, change.MemberType,
                               change.IsNameObsolete))
  ELSE MapSet(sourceMembers, change.MemberName, UndefinedMember)

RECURSIVE upsertSourceMembers(_, _)
\* MaxRevision.upsertSourceMembers
upsertSourceMembers(sourceMembers, changes) ==
  IF changes = <<>> THEN sourceMembers
  ELSE upsertSourceMembers(upsertToJson(sourceMembers, Head(changes)), Tail(changes))

RECURSIVE syncRevisionCounter(_, _)
\* MaxRevision.syncRevisionCounter
syncRevisionCounter(sourceMembers, changes) ==
  IF changes = <<>> THEN sourceMembers
  ELSE syncRevisionCounter(
         IF hasSourceMember(sourceMembers, Head(changes).MemberName)
           THEN MapSet(sourceMembers, Head(changes).MemberName,
                  [memberAt(sourceMembers, Head(changes).MemberName) EXCEPT
                     !.lastRetrievedFromServer =
                        Num(memberAt(sourceMembers,
                                     Head(changes).MemberName).serverRevisionCounter)])
           ELSE sourceMembers,
         Tail(changes))

\* a SourceMember
SourceMember(memberType, memberName, revisionCounter, isNameObsolete) ==
  [MemberType |-> memberType, MemberName |-> memberName,
   RevisionCounter |-> revisionCounter, IsNameObsolete |-> isNameObsolete]

\* the element getChangedElements pushes for an entry, none for an entry
\* whose counters are equal
changedElement(entry) ==
  IF Num(entry.v.serverRevisionCounter) # entry.v.lastRetrievedFromServer
    THEN <<SourceMember(entry.v.memberType, entry.k, entry.v.serverRevisionCounter,
                        entry.v.isNameObsolete)>>
    ELSE <<>>

RECURSIVE changedElements(_)
changedElements(entries) ==
  IF entries = <<>> THEN <<>>
  ELSE changedElement(Head(entries)) \o changedElements(Tail(entries))

\* MaxRevision.getChangedElements: reading a property of a sourceMember that
\* is undefined, or the keys of sourceMembers that is undefined, throws
getChangedElements(c) ==
  IF ~c.hasSourceMembers \/ \E i \in 1..Len(c.sourceMembers) : ~c.sourceMembers[i].v.defined
    THEN [error |-> "TypeError", elements |-> <<>>]
    ELSE [error |-> "none", elements |-> changedElements(c.sourceMembers)]

\* `serverMaxRevisionCounter < rev`: false when the counter is undefined
counterBelow(counter, rev) == counter.set /\ counter.value < rev

\* MaxRevision.setServerMaxRevision
setServerMaxRevision(c, rev) ==
  IF counterBelow(c.serverMaxRevisionCounter, rev)
    THEN [c EXCEPT !.serverMaxRevisionCounter = Num(rev)]
    ELSE c

\* ---- the operations

\* the source members the server reports
SourceMembers ==
  {SourceMember("ApexClass", n, r, FALSE) : n \in {"", "a", "b"}, r \in 1..MaxRev}

NoRevCall == [op |-> "none", rev |-> 0, before |-> NoNum, changes |-> <<>>, threw |-> FALSE]

RevCall(op, rev, changes, threw) ==
  [op |-> op, rev |-> rev, before |-> contents.serverMaxRevisionCounter,
   changes |-> changes, threw |-> threw]

NoChanged == [error |-> "none", elements |-> <<>>]

\* a MaxRevision whose init has not run
InitMaxRevision ==
  /\ contents = EmptyContents
  /\ revCalls = 0
  /\ lastCall = NoRevCall
  /\ changedSeen = NoChanged

\* MaxRevision.init for a file that did not exist: the query gives maxRev
\* (0 for no row), or throws, which init catches leaving the contents as read
InitFile(queryThrows, maxRev) ==
  /\ lastCall.op = "none"
  /\ contents' =
       IF queryThrows THEN contents
       ELSE [serverMaxRevisionCounter |-> Num(maxRev), hasSourceMembers |-> TRUE,
             sourceMembers |-> <<>>]
  /\ lastCall' = RevCall("init", maxRev, <<>>, FALSE)
  /\ UNCHANGED <<revCalls, changedSeen>>
  /\ UNCHANGED <<tvars, svars, rvars, mvars, dvars, nvars, xvars, wvars, gvars, ivars, pvars>>

Initialised == lastCall.op # "none" /\ revCalls < MaxRevCalls

SetServerMaxRevision(rev) ==
  /\ Initialised
  /\ contents' = setServerMaxRevision(contents, rev)
  /\ lastCall' = RevCall("setServerMaxRevision", rev, <<>>, FALSE)
  /\ revCalls' = revCalls + 1
  /\ UNCHANGED changedSeen
  /\ UNCHANGED <<tvars, svars, rvars, mvars, dvars, nvars, xvars, wvars, gvars, ivars, pvars>>

\* writeSourceMembers (sync FALSE) and updateSourceTracking (sync TRUE): with
\* sourceMembers undefined the first upsertToJson throws
Upserted(op, changes, sync) ==
  /\ Initialised
  /\ contents' =
       IF Len(changes) > 0 /\ contents.hasSourceMembers
         THEN [contents EXCEPT !.sourceMembers =
                 IF sync
                   THEN syncRevisionCounter(upsertSourceMembers(@, changes), changes)
                   ELSE upsertSourceMembers(@, changes)]
         ELSE contents
  /\ lastCall' = RevCall(op, 0, changes, Len(changes) > 0 /\ ~contents.hasSourceMembers)
  /\ revCalls' = revCalls + 1
  /\ UNCHANGED changedSeen
  /\ UNCHANGED <<tvars, svars, rvars, mvars, dvars, nvars, xvars, wvars, gvars, ivars, pvars>>

WriteSourceMembers(changes) == Upserted("writeSourceMembers", changes, FALSE)

UpdateSourceTracking(changes) == Upserted("updateSourceTracking", changes, TRUE)

GetChangedElements ==
  /\ Initialised
  /\ changedSeen' = getChangedElements(contents)
  /\ lastCall' = RevCall("getChangedElements", 0, <<>>,
                         getChangedElements(contents).error # "none")
  /\ revCalls' = revCalls + 1
  /\ UNCHANGED contents
  /\ UNCHANGED <<tvars, svars, rvars, mvars, dvars, nvars, xvars, wvars, gvars, ivars, pvars>>

\* the arrays of source members a call is given
ChangeArrays == UNION {[1..n -> SourceMembers] : n \in 0..MaxChanges}

----------------------------------------------------------------------------
(* MaxRevision.getInstance                                                 *)

MaxGetCalls == 3

Usernames == {"u1", "u2"}

NoGetCall == [username |-> "", pc |-> "idle", created |-> 0, returned |-> 0]

InitGetInstance ==
  /\ maxRevision = [u \in Usernames |-> 0]
  /\ nCreated = 0
  /\ createdFor = <<>>
  /\ getCalls = [i \in 1..MaxGetCalls |-> NoGetCall]

\* getInstance(options) up to its await: the dictionary has the instance,
\* which is returned, or MaxRevision.create is called and awaited
GetInstance(i, u) ==
  /\ getCalls[i].pc = "idle"
  /\ getCalls' =
       [getCalls EXCEPT ![i] =
          IF maxRevision[u] # 0
            THEN [username |-> u, pc |-> "done", created |-> 0, returned |-> maxRevision[u]]
            ELSE [username |-> u, pc |-> "creating", created |-> 0, returned |-> 0]]
  /\ UNCHANGED <<maxRevision, nCreated, createdFor>>
  /\ UNCHANGED <<tvars, svars, rvars, mvars, dvars, nvars, xvars, wvars, gvars, kvars, pvars>>

\* MaxRevision.create resolves: the new instance is stored in the dictionary
\* and the entry of the dictionary is returned
CreateResolves(i) ==
  /\ getCalls[i].pc = "creating"
  /\ nCreated' = nCreated + 1
  /\ createdFor' = Append(createdFor, getCalls[i].username)
  /\ maxRevision' = [maxRevision EXCEPT ![getCalls[i].username] = nCreated + 1]
  /\ getCalls' = [getCalls EXCEPT ![i].pc = "done", ![i].created = nCreated + 1,
                                  ![i].returned = nCreated + 1]
  /\ UNCHANGED <<tvars, svars, rvars, mvars, dvars, nvars, xvars, wvars, gvars, kvars, pvars>>

----------------------------------------------------------------------------
(* MetadataResolver and SourceComponent called on one path or component    *)

\* the paths of the tree of the model, with and without the files withBad adds
TreePaths ==
  UNION {{join(d, readDirectory(d, b)[i]) : i \in 1..Len(readDirectory(d, b))} :
           d \in Directories, b \in BOOLEAN}

\* paths that are not in the tree: files in metadata format, documents in
\* folders, a bundle with a directory named as the documents are, a file
\* whose name goes on after -meta.xml
OtherPaths ==
  {<<Dir("widgets"), <<"W", ".", "widget">> >>,
   <<Dir("reports"), <<"R", ".", "report">> >>,
   <<Dir("reports"), Dir("MyFolder"), <<"R", ".", "report">> >>,
   <<Dir("documents")>>,
   <<Dir("documents"), Dir("F")>>,
   <<Dir("documents"), <<"F", ".", "document">> >>,
   <<Dir("documents"), Dir("F"), Dir("d")>>,
   <<Dir("documents"), Dir("F"), <<"d", ".", "png">> >>,
   <<Dir("lwc"), Dir("foo"), Dir("documents"), <<"x", ".", "js">> >>,
   <<Dir("objects"), Dir("A"), Dir("lwc")>>,
   <<Dir("staticresources"), <<"a", ".", "resource">> >>,
   <<Dir("staticresources"), Dir("a"), Dir("sub")>>,
   <<Dir("unknown"), <<"x", ".", "txt">> >>,
   <<Dir("classes"), <<"A", "-meta", ".", "xml", ".", "bak">> >>}

ProbePaths == TreePaths \cup OtherPaths

\* what the ignore file denies
ProbeDenied == {{}, {<<Dir("classes")>>}}

NoProbe ==
  [op |-> "none", path |-> <<>>, isResolvingSource |-> FALSE, denied |-> {},
   type |-> NoType, dispatched |-> FALSE, answer |-> FALSE, of |-> Undefined,
   withBad |-> FALSE, components |-> <<>>]

\* MetadataResolver.resolveType(fsPath)
ProbeResolveType(p) ==
  /\ probed' = [NoProbe EXCEPT !.op = "resolveType", !.path = p, !.type = resolveType(p)]
  /\ UNCHANGED <<tvars, svars, rvars, mvars, dvars, nvars, xvars, wvars, gvars, kvars, ivars>>

\* MetadataResolver.resolveComponent(fsPath, isResolvingSource): dispatched
\* tells that adapter.getComponent was called
ProbeResolveComponent(p, isResolvingSource, deniedRoots) ==
  /\ probed' =
       [NoProbe EXCEPT
          !.op = "resolveComponent", !.path = p,
          !.isResolvingSource = isResolvingSource, !.denied = deniedRoots,
          !.type = resolveType(p),
          !.dispatched = /\ ~(isMetadata(p) /\ denies(p, deniedRoots))
                         /\ resolveType(p) # NoType
                         /\ shouldResolveComponent(resolveType(p), p, isResolvingSource),
          !.components =
             IF resolveComponent(p, isResolvingSource, deniedRoots, FALSE).c.form = "source"
               THEN <<resolveComponent(p, isResolvingSource, deniedRoots, FALSE).c>>
               ELSE <<>>]
  /\ UNCHANGED <<tvars, svars, rvars, mvars, dvars, nvars, xvars, wvars, gvars, kvars, ivars>>

\* MetadataResolver.resolveDirectoryAsComponent(dirPath)
ProbeResolveDirectory(p) ==
  /\ probed' = [NoProbe EXCEPT !.op = "resolveDirectoryAsComponent", !.path = p,
                               !.type = resolveType(p),
                               !.answer = resolveDirectoryAsComponent(p)]
  /\ UNCHANGED <<tvars, svars, rvars, mvars, dvars, nvars, xvars, wvars, gvars, kvars, ivars>>

\* the components getChildren is called on: those of the workspace
ProbeComponents == {WorkspaceComponents[i] : i \in 1..Len(WorkspaceComponents)}

\* SourceComponent.getChildren()
ProbeGetChildren(c, deniedRoots, withBad) ==
  /\ probed' = [NoProbe EXCEPT !.op = "getChildren", !.of = c, !.denied = deniedRoots,
                               !.withBad = withBad,
                               !.components = getChildren(c, deniedRoots, withBad)]
  /\ UNCHANGED <<tvars, svars, rvars, mvars, dvars, nvars, xvars, wvars, gvars, kvars, ivars>>

----------------------------------------------------------------------------
(* Specifications *)

IdleTransfer ==
  /\ kind = "deploy" /\ pc = "idle" /\ shouldCancel = FALSE /\ result = NoResult
  /\ triedOnce = FALSE /\ events = <<>> /\ checks = 0 /\ error = "none"
  /\ cancelUpd = -1 /\ cancelSync = FALSE /\ failedChecks = 0

IdleSet ==
  /\ components = <<>> /\ flush = <<>> /\ added = <<>> /\ eager = <<>>
  /\ nAdds = 0 /\ iter = NoIter
  /\ obs = NoObs

IdleResolve ==
  /\ givenPaths = <<>> /\ ignoreRoots = {} /\ treeHasBad = FALSE
  /\ target = <<>> /\ targetBefore = <<>> /\ delivered = <<>>
  /\ rerror = "none" /\ rcall = NoCall /\ nCalls = 0 /\ usedFilter = NoFilter
  /\ once = NoRead /\ twice = NoRead

IdleManifest ==
  /\ manifest = <<>> /\ resolveOpt = [given |-> FALSE, paths |-> <<>>]
  /\ literalWildcard = FALSE /\ members = <<>> /\ ws = <<>> /\ wsError = "none"
  /\ pkg = <<>> /\ resolvedMembers = <<>> /\ mcall = NoManifestCall

IdleDeployResult ==
  /\ deployed = <<>> /\ componentFailures = <<>> /\ componentSuccesses = <<>>
  /\ fileResponses = <<>> /\ responded = FALSE
  /\ reported = [failures |-> <<>>, successes |-> <<>>]

IdleFullName == componentClass = "part_000" /\ namesSeen = <<>>

IdleTransformer ==
  original = Undefined /\ converting = Undefined /\ writerFormats = <<>>

IdleConvert ==
  /\ toConvert = <<>> /\ position = 0 /\ copyJobs = <<>> /\ destFiles = <<>>
  /\ metadataFormat = <<>> /\ convertOutcome = "none"

IdleGit ==
  listing = <<>> /\ gitTree = <<>> /\ gitReady = FALSE /\ fetching = 0
  /\ asked = NotAsked

IdleMaxRevision ==
  /\ contents = EmptyContents /\ revCalls = 0 /\ lastCall = NoRevCall
  /\ changedSeen = NoChanged

IdleGetInstance ==
  /\ maxRevision = <<>> /\ nCreated = 0 /\ createdFor = <<>> /\ getCalls = <<>>

IdleProbe == probed = NoProbe

Init ==
  /\ InitTransfer /\ IdleSet /\ IdleResolve /\ IdleManifest /\ IdleDeployResult
  /\ IdleFullName /\ IdleTransformer /\ IdleConvert
  /\ IdleGit /\ IdleMaxRevision /\ IdleGetInstance /\ IdleProbe

Next ==
  \/ StartPolling
  \/ Cancel
  \/ LoopHead
  \/ WaitDone
  \/ \E r \in Responses, c \in BOOLEAN : CheckStatusReturns(r, c)
  \/ CheckStatusFails

Spec == Init /\ [][Next]_vars

InitSetSpec ==
  InitSet /\ IdleTransfer /\ IdleResolve /\ IdleManifest /\ IdleDeployResult
    /\ IdleFullName /\ IdleTransformer /\ IdleConvert
  /\ IdleGit /\ IdleMaxRevision /\ IdleGetInstance /\ IdleProbe

NextSetSpec ==
  \/ \E c \in Universe : Add(c)
  \/ \E c \in Universe : Has(c)
  \/ IterateNext
  \/ IterateReturn
  \/ Size
  \/ GetSourceComponents
  \/ ReadSources

SpecSet == InitSetSpec /\ [][NextSetSpec]_vars

InitResolveSpec ==
  InitResolve /\ IdleTransfer /\ IdleSet /\ IdleManifest /\ IdleDeployResult
    /\ IdleFullName /\ IdleTransformer /\ IdleConvert
  /\ IdleGit /\ IdleMaxRevision /\ IdleGetInstance /\ IdleProbe

NextResolveSpec ==
  \/ ResolveSource
  \/ \E i \in 1..MaxPaths : ResolveSourceComponents(i)
  \/ \E k \in 1..NumFilters : ResolveSourceFiltered(k)
  \/ \E k \in 1..NumFilters : ResolveSourceOptions(k)

SpecResolve == InitResolveSpec /\ [][NextResolveSpec]_vars

NextResolveTwice == \E i \in 1..MaxPaths : ResolveTwice(i)

SpecResolveTwice == InitResolveSpec /\ [][NextResolveTwice]_vars

InitManifestSpec ==
  InitManifest /\ IdleTransfer /\ IdleSet /\ IdleResolve /\ IdleDeployResult
    /\ IdleFullName /\ IdleTransformer /\ IdleConvert
  /\ IdleGit /\ IdleMaxRevision /\ IdleGetInstance /\ IdleProbe

SpecManifest == InitManifestSpec /\ [][FromManifestFile]_vars

InitDeployResultSpec ==
  /\ InitDeployResult /\ IdleTransfer /\ IdleSet /\ IdleResolve /\ IdleManifest
  /\ IdleFullName /\ IdleTransformer /\ IdleConvert
  /\ IdleGit /\ IdleMaxRevision /\ IdleGetInstance /\ IdleProbe

InitFullNameSpec ==
  /\ InitFullName /\ InitResolve /\ IdleTransfer /\ IdleSet /\ IdleManifest
  /\ IdleDeployResult /\ IdleTransformer /\ IdleConvert
  /\ IdleGit /\ IdleMaxRevision /\ IdleGetInstance /\ IdleProbe

SpecFullName == InitFullNameSpec /\ [][ReadFullNames]_vars

SpecDeployResult == InitDeployResultSpec /\ [][GetFileResponses]_vars

InitPackageSpec ==
  InitPackage /\ IdleTransfer /\ IdleSet /\ IdleResolve /\ IdleDeployResult
    /\ IdleFullName /\ IdleTransformer /\ IdleConvert
  /\ IdleGit /\ IdleMaxRevision /\ IdleGetInstance /\ IdleProbe

SpecPackage == InitPackageSpec /\ [][PackageRoundTrip]_vars

InitTransformerSpec ==
  /\ InitTransformer /\ IdleTransfer /\ IdleSet /\ IdleResolve /\ IdleManifest
  /\ IdleDeployResult /\ IdleFullName /\ IdleConvert
  /\ IdleGit /\ IdleMaxRevision /\ IdleGetInstance /\ IdleProbe

NextTransformer ==
  \/ ToMetadataFormat
  \/ \E merge \in BOOLEAN : ToSourceFormat(merge)

SpecTransformer == InitTransformerSpec /\ [][NextTransformer]_vars

InitConvertSpec ==
  /\ InitConvert /\ IdleTransfer /\ IdleSet /\ IdleResolve /\ IdleManifest
  /\ IdleDeployResult /\ IdleFullName /\ IdleTransformer
  /\ IdleGit /\ IdleMaxRevision /\ IdleGetInstance /\ IdleProbe

NextConvert ==
  \/ ConvertSource
  \/ EnsureDirectoryFails
  \/ \E failedAt \in 0..MaxCopies : ToApiFormat(failedAt)
  \/ \E j \in 1..(MaxComponents * MaxCopies) : CopyEnds(j)
  \/ \E j \in 1..(MaxComponents * MaxCopies) : CopyFails(j)
  \/ ToApiFormatReturns

SpecConvert == InitConvertSpec /\ [][NextConvert]_vars

InitGitSpec ==
  /\ InitGit /\ IdleTransfer /\ IdleSet /\ IdleResolve /\ IdleManifest
  /\ IdleDeployResult /\ IdleFullName /\ IdleTransformer /\ IdleConvert
  /\ IdleMaxRevision /\ IdleGetInstance /\ IdleProbe

NextGit ==
  \/ Initialize
  \/ FetchGithubTree
  \/ FetchGithubTreeFails
  \/ InitializeLocal
  \/ \E p \in AskedPaths : GitExists(p)
  \/ \E p \in AskedPaths : GitIsDirectory(p)
  \/ \E p \in AskedPaths : GitReadDir(p)
  \/ \E fullName \in AskedNames : FindContent(fullName)
  \/ \E fullName \in AskedNames : FindMetadataXml(fullName)

SpecGit == InitGitSpec /\ [][NextGit]_vars

InitMaxRevisionSpec ==
  /\ InitMaxRevision /\ IdleTransfer /\ IdleSet /\ IdleResolve /\ IdleManifest
  /\ IdleDeployResult /\ IdleFullName /\ IdleTransformer /\ IdleConvert
  /\ IdleGit /\ IdleGetInstance /\ IdleProbe

NextMaxRevision ==
  \/ \E queryThrows \in BOOLEAN, maxRev \in 0..MaxRev : InitFile(queryThrows, maxRev)
  \/ \E rev \in 0..MaxRev : SetServerMaxRevision(rev)
  \/ \E changes \in ChangeArrays : WriteSourceMembers(changes)
  \/ \E changes \in ChangeArrays : UpdateSourceTracking(changes)
  \/ GetChangedElements

SpecMaxRevision == InitMaxRevisionSpec /\ [][NextMaxRevision]_vars

InitGetInstanceSpec ==
  /\ InitGetInstance /\ IdleTransfer /\ IdleSet /\ IdleResolve /\ IdleManifest
  /\ IdleDeployResult /\ IdleFullName /\ IdleTransformer /\ IdleConvert
  /\ IdleGit /\ IdleMaxRevision /\ IdleProbe

NextGetInstance ==
  \/ \E i \in 1..MaxGetCalls, u \in Usernames : GetInstance(i, u)
  \/ \E i \in 1..MaxGetCalls : CreateResolves(i)

SpecGetInstance == InitGetInstanceSpec /\ [][NextGetInstance]_vars

InitProbeSpec ==
  /\ probed = NoProbe /\ IdleTransfer /\ IdleSet /\ IdleResolve /\ IdleManifest
  /\ IdleDeployResult /\ IdleFullName /\ IdleTransformer /\ IdleConvert
  /\ IdleGit /\ IdleMaxRevision /\ IdleGetInstance

NextProbe ==
  \/ \E p \in ProbePaths : ProbeResolveType(p)
  \/ \E p \in ProbePaths, isResolvingSource \in BOOLEAN, deniedRoots \in ProbeDenied :
       ProbeResolveComponent(p, isResolvingSource, deniedRoots)
  \/ \E p \in ProbePaths : ProbeResolveDirectory(p)
  \/ \E c \in ProbeComponents, deniedRoots \in ProbeDenied, withBad \in BOOLEAN :
       ProbeGetChildren(c, deniedRoots, withBad)

SpecProbe == InitProbeSpec /\ [][NextProbe]_vars

----------------------------------------------------------------------------
(* Properties of the poll loop (specification Spec)                        *)

LastEvent == events[Len(events)]

PollStopped == pc \in {"done", "rejected"}

\* C1: every transfer whose poll loop has stopped (terminal status, failed
\* check_status, or cancel at any point) has emitted exactly one finish; no
\* transfer emits a second finish and no update follows a finish.
C1_TransferTerminality ==
  /\ NumEvents("finish") <= 1
  /\ PollStopped => NumEvents("finish") = 1
  /\ \A i \in 1..Len(events) : events[i].type = "finish" => i = Len(events)

\* C2: at the tick after cancel(), finish with status Canceled is emitted when
\* do_cancel() reports done and only then; when it reports not done the loop
\* goes on polling check_status.
C2_CancelFinishesOnlyWhenDone ==
  [][(pc = "top" /\ shouldCancel /\ pc' # pc) =>
       IF doCancel(kind).resolvesTo
         THEN /\ pc' = "done"
              /\ Len(events') = Len(events) + 1
              /\ events'[Len(events')].type = "finish"
              /\ events'[Len(events')].status = "Canceled"
         ELSE /\ pc' \in {"waiting", "checking"}
              /\ events' = events]_vars

\* C3: a deploy on which cancel() was called after the second update (at any
\* moment before a third one, and before the loop ended) ends with a finish
\* whose status is Canceled and whose success is false.
C3_CancelAfterSecondUpdate ==
  (kind = "deploy" /\ cancelUpd = 2 /\ pc = "done") =>
    /\ LastEvent.type = "finish"
    /\ LastEvent.status = "Canceled"
    /\ LastEvent.success = FALSE

\* C4: a failed check_status ends the loop with the request-failure error:
\* check_status is not called again and no event is emitted afterwards.
C4_CheckFailureTerminates ==
  /\ [](failedChecks > 0 =>
          pc = "rejected" /\ error = "md_request_fail" /\ failedChecks = 1)
  /\ [][failedChecks > 0 => (checks' = checks /\ events' = events)]_vars

C4_Witness ==
  failedChecks = 1 /\ pc = "rejected" /\ NumEvents("update") = 2 /\ shouldCancel

----------------------------------------------------------------------------
(* Properties of ComponentSet (specification SpecSet)                      *)

\* the registry type a component is of
TypeOfComponent(c) == IF c.form = "name" THEN getTypeByName(c.tstr) ELSE c.type

Added == {added[i] : i \in 1..Len(added)}

\* w is the wildcard member of type T, given with the type or with its name
IsWildcardOf(w, T) == FullName(w) = WILDCARD /\ TypeOfComponent(w) = T

\* C5: if the set contains the wildcard member of type T, added with the type
\* object or with the type name, has(c) is true for every concrete c of type
\* T, also when T's id is not its lowercased name.
C5_WildcardMembership ==
  (/\ obs.op = "has"
   /\ FullName(obs.arg) # WILDCARD
   /\ \E w \in Added : IsWildcardOf(w, TypeOfComponent(obs.arg)))
    => obs.bool

\* the (type.id, fullName) key of a component
IdentityKey(c) == <<TypeOfComponent(c).id, FullName(c)>>

\* C6: one full iteration yields, for each distinct (type.id, fullName) key,
\* either exactly one abstract component of that type and fullName (no
\* source-backed component was added under the key) or each distinct
\* source-backed component added under the key exactly once; nothing is
\* yielded twice and size is the number of yielded components.
C6_IterationDedup ==
  /\ (obs.op = "size" /\ obs.after = "iterate" /\ ~obs.mixed) => obs.n = Len(obs.yielded)
  /\ (obs.op = "iterate" /\ ~obs.mixed) =>
    LET Y == obs.yielded
    IN /\ \A K \in {IdentityKey(c) : c \in Added} :
            LET srcs == {c \in Added : c.form = "source" /\ IdentityKey(c) = K}
                at == {i \in 1..Len(Y) : IdentityKey(Y[i]) = K}
            IN IF srcs = {}
                 THEN Cardinality(at) = 1 /\ \A i \in at : Y[i].form = "object"
                 ELSE /\ \A i \in at : Y[i] \in srcs
                      /\ \A s \in srcs : Cardinality({i \in at : Y[i] = s}) = 1
       /\ \A i \in 1..Len(Y) : IdentityKey(Y[i]) \in {IdentityKey(c) : c \in Added}
       /\ \A i, j \in 1..Len(Y) : Y[i] = Y[j] => i = j

\* a wildcard entry for type T is in the index
WildcardInIndex(T) ==
  \/ MapHas(components, <<T.id, KEY_DELIMITER>> \o WILDCARD)
  \/ MapHas(components, <<toLowerTrim(T.name), KEY_DELIMITER>> \o WILDCARD)

\* C7: has(c) is true exactly when (a) c's simple key is in the index, (b) a
\* wildcard entry for c's type is in the index, or (c) c has a parent for
\* which (a) or (b) holds.
C7_HasCharacterisation ==
  obs.op = "has" =>
    (obs.bool <=>
       \/ MapHas(components, simpleKey(obs.arg))
       \/ WildcardInIndex(TypeOfComponent(obs.arg))
       \/ /\ obs.arg.parent # <<>>
          /\ \/ MapHas(components, simpleKey(obs.arg.parent[1]))
             \/ WildcardInIndex(TypeOfComponent(obs.arg.parent[1])))

Range(s) == {s[i] : i \in 1..Len(s)}

\* C8: add, has, iteration and get_source_components consume the seed to
\* exhaustion before they read or change the index, so each returns what it
\* would return had every seed element been added at construction, also when
\* the seed produces an empty element before its last component.
C8_SeedFlushedFirst ==
  (obs.op \in {"add", "has", "iterate", "getSourceComponents", "read"} /\ ~obs.mixed) =>
    /\ obs.pending = 0
    /\ obs.bool = obs.eagerBool
    /\ Range(obs.yielded) = Range(obs.eagerYielded)
    /\ Len(obs.yielded) = Len(obs.eagerYielded)

\* C9: when resolving one of the given paths fails, the whole call fails and
\* nothing is committed: no component resolved from the other paths is
\* delivered to the caller or left added to the receiving ComponentSet.
C9_NoPartialCommit ==
  rerror # "none" => (delivered = <<>> /\ target = targetBefore)

\* the path is a path of a component and the ignore matcher denies it
IsDenied(p) == p # <<>> /\ denies(p, ignoreRoots)

\* the source-backed components of an index
SourcesOf(comps) == {c \in Range(yieldEntries(comps)) : c.form = "source"}

\* C10: for every path p the ignore matcher denies, no component whose xml or
\* content equals p or lies under p appears in the result, whether p is a
\* metadata xml, a content file, a walked directory or a directory resolved
\* as a single component.
C10_IgnoreCorrectness ==
  \A c \in Range(delivered) \cup SourcesOf(target) :
    ~IsDenied(c.xml) /\ ~IsDenied(c.content)

\* the inclusive filter of the last call admits c: c is in the filter, and
\* when c is a child its parent is not
FilterAdmits(c) ==
  /\ has(usedFilter.components, c)
  /\ c.parent # <<>> => ~has(usedFilter.components, c.parent[1])

\* C11: when resolve_source is given a filter, every component of the result
\* is in the filter or is a child in the filter of a resolved component that
\* is not, for a single file, a directory resolved as one component and a
\* walked directory, and for the options form that passes inclusiveFilter.
C11_FilterSemantics ==
  usedFilter.on => \A c \in Range(delivered) : FilterAdmits(c)

\* C12: for every path p, resolve_source([p]) and resolve_source([p, p])
\* contain the same components: resolving the path a second time adds no
\* component and changes neither the size nor the iteration result of the set.
C12_ResolverIdempotence ==
  rcall.op = "resolveTwice" =>
    /\ twice.first = once.first
    /\ twice.error = once.error
    /\ twice.size = once.size
    /\ twice.sizeError = once.sizeError
    /\ twice.second = once.second

C12_Witness ==
  /\ rcall.op = "resolveTwice"
  /\ once.error = "none"
  /\ once.size = 1
  /\ twice.second = once.first

----------------------------------------------------------------------------
(* Properties of manifests (specifications SpecManifest, SpecPackage)       *)

\* the types the manifest lists the wildcard member for
WildcardTypes ==
  {getTypeByName(manifest[i].name) :
     i \in {j \in 1..Len(manifest) : WILDCARD \in Range(manifest[j].members)}}

\* the components that resolving the paths of the resolve option yields
ResolvedFromPaths ==
  UNION {Range(flushComponents(<<>>, resolveSource(<<resolveOpt.paths[i]>>, NoFilter,
                                                   {}, FALSE)).yielded) :
           i \in 1..Len(resolveOpt.paths)}

\* C13: a set built from a manifest that lists the wildcard member for a type
\* T together with a resolve path contains every component of type T that
\* resolving the path yields; the literal wildcard member is in the set only
\* when literalWildcard is requested.
C13_WildcardManifest ==
  (mcall.op = "fromManifestFile" /\ resolveOpt.given /\ wsError = "none") =>
    \A T \in WildcardTypes :
      /\ \A c \in ResolvedFromPaths : c.type = T => c \in SourcesOf(ws)
      /\ MapHas(ws, simpleKey(LikeByType(T, WILDCARD))) => literalWildcard

\* the components of the set the manifest was produced from
SetComponents == Range(yieldEntries(addAll(<<>>, members)))

\* C14: parsing the manifest produced by get_package_xml yields a member with
\* the same type and fullName for every component of the set, including
\* folder components, components whose type declares folderContentType and
\* components of a type in folders whose fullName contains no '/'.
C14_ManifestRoundTrip ==
  mcall.op = "getPackageXml" =>
    \A c \in SetComponents :
      \E m \in Range(resolvedMembers) :
        m.type = c.type /\ m.fullName = FullName(c)

\* the type the manifest reader gives a component of the set: a name without
\* '/' listed under a type in folders denotes a folder, a name with '/' a
\* component in a folder
TypeReadBack(c) ==
  IF c.type.folderType # "" /\ ~IncludesSlash(FullName(c))
    THEN getTypeByName(c.type.folderType)
  ELSE IF c.type.folderContentType # "" /\ IncludesSlash(FullName(c))
    THEN getTypeByName(c.type.folderContentType)
  ELSE c.type

\* C14 (amended): parsing the manifest produced by get_package_xml yields,
\* for every component of the set, a member with the same fullName whose type
\* is the component's type, except that a component of a type in folders
\* whose fullName has no '/' is read as a member of the folder type, and a
\* folder component whose fullName has a '/' as a member of the folder
\* content type.
C14_RoundTripUpToFolderNames ==
  mcall.op = "getPackageXml" =>
    \A c \in SetComponents :
      \E m \in Range(resolvedMembers) :
        m.type = TypeReadBack(c) /\ m.fullName = FullName(c)

C14_Witness ==
  /\ mcall.op = "getPackageXml"
  /\ \E c \in SetComponents : c.type = ReportFolder /\ FullName(c) = <<"MyFolder">>
  /\ \E c \in SetComponents : c.type = Report /\ FullName(c) = <<"R">>
  /\ Len(pkg) = 1

\* the type names of the model in the order of their text
SortedTypeNames ==
  <<"ApexClass", "CustomField", "CustomObject", "LightningComponentBundle",
    "Report", "ReportFolder", "StaticResource", "Widget">>

NameRank(n) == CHOOSE i \in 1..Len(SortedTypeNames) : SortedTypeNames[i] = n

\* C15: the manifest produced from a set has exactly one types entry per
\* type name, the entries are ordered by type name whatever the order in
\* which components were added, every component's fullName is listed in the
\* members of its type's entry, and a component whose type declares
\* folderContentType is listed under that type's name instead of its own.
C15_PackageGrouping ==
  mcall.op = "getPackageXml" =>
    /\ \A i, j \in 1..Len(pkg) : i < j => NameRank(pkg[i].name) < NameRank(pkg[j].name)
    /\ \A c \in SetComponents :
         \E i \in 1..Len(pkg) :
           /\ pkg[i].name = (IF c.type.folderContentType # ""
                               THEN getTypeByName(c.type.folderContentType).name
                               ELSE c.type.name)
           /\ FullName(c) \in Range(pkg[i].members)

----------------------------------------------------------------------------
(* Properties of DeployResult (specification SpecDeployResult)             *)

\* the message, sanitized, is one of the component x
IsUnder(x, m) ==
  RemoveFirstMarkup(m.fullName) = FullName(x) /\ m.componentType = x.type.name

\* the messages grouped under the component x: its failures, and its
\* successes when it has no failure
MessagesUnder(x) ==
  LET fs == SelectSeq(componentFailures, LAMBDA m : IsUnder(x, m))
  IN IF fs # <<>> THEN fs ELSE SelectSeq(componentSuccesses, LAMBDA m : IsUnder(x, m))

\* the responses stated for a message of x: one for a failure, else one
\* for every content file and one for the xml
StatedForMessage(x, m) ==
  IF m.success = "false"
    THEN <<FileResponse(x, "Failed",
                        IF x.xml # <<>> /\ x.content = <<>> THEN x.xml ELSE <<>>)>>
    ELSE [i \in 1..Len(walkContent(x, {}, FALSE)) |->
            FileResponse(x, getState(m), walkContent(x, {}, FALSE)[i])]
         \o (IF x.xml # <<>> THEN <<FileResponse(x, getState(m), x.xml)>> ELSE <<>>)

\* the source-backed components of the deployed set and their children
DeployedAndChildren ==
  SourcesOf(deployed)
    \cup UNION {Range(getChildren(c, {}, FALSE)) : c \in SourcesOf(deployed)}

\* how often the response r is stated
StatedCount(r) ==
  Cardinality({t \in {<<x, i, k>> : x \in DeployedAndChildren,
                                    i \in 1..(MaxFailures + MaxSuccesses + 1),
                                    k \in 1..3} :
                 /\ t[2] <= Len(MessagesUnder(t[1]))
                 /\ t[3] <= Len(StatedForMessage(t[1], MessagesUnder(t[1])[t[2]]))
                 /\ StatedForMessage(t[1], MessagesUnder(t[1])[t[2]])[t[3]] = r})

\* how often the response r was returned
ReturnedCount(r) == Cardinality({i \in 1..Len(fileResponses) : fileResponses[i] = r})

\* every response that is stated
StatedResponses ==
  UNION {UNION {Range(StatedForMessage(x, MessagesUnder(x)[i])) :
                  i \in 1..Len(MessagesUnder(x))} : x \in DeployedAndChildren}

\* C16: get_file_responses returns, for each source-backed component of the
\* set and each of its children and for each message grouped under it,
\* exactly one response when the message is a failure (filePath = xml when
\* the component has an xml and no content), and otherwise one response per
\* content file plus one for the xml; a message that matches no component
\* produces no response.
C16_FileResponses ==
  responded =>
    \A r \in Range(fileResponses) \cup StatedResponses :
      ReturnedCount(r) = StatedCount(r)

\* C17: if the remote status lists both a failure and a success for the same
\* (fullName, componentType), compared after sanitation has stripped the
\* markup://c: prefix, every file response of that component has state
\* Failed: no success response is reported for it.
C17_FailureWins ==
  responded =>
    \A i \in 1..Len(componentFailures), j \in 1..Len(componentSuccesses) :
      (/\ RemoveFirstMarkup(componentFailures[i].fullName)
            = RemoveFirstMarkup(componentSuccesses[j].fullName)
       /\ componentFailures[i].componentType = componentSuccesses[j].componentType)
        => \A k \in 1..Len(fileResponses) :
             (/\ fileResponses[k].fullName = RemoveFirstMarkup(componentFailures[i].fullName)
              /\ fileResponses[k].type = componentFailures[i].componentType)
               => fileResponses[k].state = "Failed"

----------------------------------------------------------------------------
(* Properties of SourceComponent.fullName (specification SpecFullName)     *)

\* C18: for every source component c that has a parent, in particular every
\* child returned by get_children, c.fullName equals parent.fullName + "." +
\* c.name; for a component without a parent fullName equals name.
C18_DottedFullName ==
  \A i \in 1..Len(namesSeen) :
    namesSeen[i].fullName =
      IF namesSeen[i].component.parent # <<>>
        THEN fullNameIn(componentClass, namesSeen[i].component.parent[1])
               \o <<".">> \o namesSeen[i].component.name
        ELSE namesSeen[i].component.name

----------------------------------------------------------------------------
(* Properties of the default transformer (specification SpecTransformer)   *)

XmlOnly(c) == c.xml # <<>> /\ c.content = <<>>

\* the output path of the xml file of a conversion
XmlOutput(w) == w.format.writeInfos[Len(w.format.writeInfos)].output

\* a path with its -meta.xml suffix removed: the path itself when it does
\* not end in -meta.xml
WithoutMetaXmlSuffix(text) ==
  IF EndsWithMetaXml(text) THEN SubSeq(text, 1, Len(text) - 3) ELSE text

\* the xml output of conversion w is the package-relative path of the xml,
\* without its -meta.xml for the metadata target, with -meta.xml appended
\* for the source target
XmlOutputAsStated(w) ==
  LET c == w.format.component
      relative == PathText(getPackageRelativePath(c, c.xml, w.targetFormat))
  IN IF w.targetFormat = "metadata"
       THEN XmlOutput(w) = WithoutMetaXmlSuffix(relative)
       ELSE XmlOutput(w) = relative \o META_XML_SUFFIX

\* C19: for a component that has an xml and no content, the output path of
\* the xml is, for the metadata target, the package-relative path of the xml
\* with its -meta.xml suffix removed and, for the source target, the
\* package-relative path with -meta.xml appended; converting such a component
\* to metadata format and the result back to source format restores the
\* name of the original xml file.
C19_XmlDestinationRoundTrip ==
  /\ \A i \in 1..Len(writerFormats) :
       (XmlOnly(writerFormats[i].format.component) /\ ~writerFormats[i].merged)
         => XmlOutputAsStated(writerFormats[i])
  /\ \A i \in 1..(Len(writerFormats) - 1) :
       (/\ XmlOnly(writerFormats[i].format.component)
        /\ EndsWithMetaXml(basename(writerFormats[i].format.component.xml))
        /\ writerFormats[i].targetFormat = "metadata"
        /\ writerFormats[i + 1].targetFormat = "source"
        /\ ~writerFormats[i + 1].merged)
         => basename(SplitOn(XmlOutput(writerFormats[i + 1]), SEP))
              = basename(writerFormats[i].format.component.xml)

----------------------------------------------------------------------------
(* Properties of convertSource (specification SpecConvert)                 *)

\* every file of component i of the list was written whole
FullyWritten(i) ==
  \A k \in 1..Len(copiesOf(toConvert[i], Destination)) :
    /\ MapHas(destFiles, copiesOf(toConvert[i], Destination)[k].dest)
    /\ MapGet(destFiles, copiesOf(toConvert[i], Destination)[k].dest) = "whole"

\* no file of component i of the list is there
NothingWritten(i) ==
  \A k \in 1..Len(copiesOf(toConvert[i], Destination)) :
    ~MapHas(destFiles, copiesOf(toConvert[i], Destination)[k].dest)

\* the conversion failed and no copy is running any more
FailedAndSettled ==
  /\ convertOutcome = "rejected"
  /\ \A j \in 1..Len(copyJobs) : copyJobs[j].state # "running"

\* C20: when the conversion of one component of the list fails, every
\* component converted before it stays fully written, and the writes of the
\* failing component are all-or-nothing: all of its files were written or
\* none of them remains.
C20_PerComponentCommit ==
  FailedAndSettled =>
    /\ \A i \in 1..(position - 1) : FullyWritten(i)
    /\ FullyWritten(position) \/ NothingWritten(position)

----------------------------------------------------------------------------
(* Properties of the git tree (specification SpecGit)                      *)

\* the listed files and their ancestor directories, the top directory among
\* them
ExistingPaths ==
  UNION {{SubSeq(listing[i], 1, n) : n \in 0..Len(listing[i])} : i \in 1..Len(listing)}

\* the directories among them
ExistingDirectories ==
  {p \in ExistingPaths :
     \E i \in 1..Len(listing) : Len(p) < Len(listing[i]) /\ IsPrefix(p, listing[i])}

\* C21: after initialize, exists(p) returns true exactly for the listed
\* files and their ancestor directories and returns false, without failing,
\* for every other path, also one whose parent directory is not in the
\* listing; isDirectory(p) is true exactly for the directories among the
\* existing paths.
C21_GitTreeContract ==
  /\ (asked.op = "exists" /\ asked.ready) =>
       asked.outcome = IF asked.path \in ExistingPaths THEN "true" ELSE "false"
  /\ (asked.op = "isDirectory" /\ asked.ready /\ asked.path \in ExistingPaths) =>
       asked.outcome = IF asked.path \in ExistingDirectories THEN "true" ELSE "false"

\* C30: findMetadataXml(dir, name) and findContent(dir, name) return only a
\* file of dir whose base name is exactly name, never a file of another
\* component whose name starts with name, whatever the order of the entries
\* of the directory.
C30_FindByExactName ==
  (asked.op \in {"findContent", "findMetadataXml"} /\ asked.outcome = "path") =>
    /\ dirname(asked.found) = asked.path
    /\ baseName(asked.found) = asked.name

----------------------------------------------------------------------------
(* Properties of MaxRevision (specifications SpecMaxRevision and           *)
(* SpecGetInstance)                                                        *)

\* C22: setServerMaxRevision(rev) replaces the stored counter by rev if and
\* only if rev is higher than the current value; the stored counter never
\* decreases and, after each call, is at least the rev just passed, also for
\* a tracker whose counter was never initialised.
C22_MaxRevisionMonotone ==
  lastCall.op = "setServerMaxRevision" =>
    /\ contents.serverMaxRevisionCounter.set
    /\ contents.serverMaxRevisionCounter.value >= lastCall.rev
    /\ lastCall.before.set =>
         /\ contents.serverMaxRevisionCounter.value >= lastCall.before.value
         /\ contents.serverMaxRevisionCounter.value =
              IF lastCall.rev > lastCall.before.value THEN lastCall.rev
              ELSE lastCall.before.value

\* the members getChangedElements has to return: those whose
\* serverRevisionCounter differs from lastRetrievedFromServer
ChangedNames ==
  {contents.sourceMembers[i].k : i \in
     {j \in 1..Len(contents.sourceMembers) :
        /\ contents.sourceMembers[j].v.defined
        /\ Num(contents.sourceMembers[j].v.serverRevisionCounter)
             # contents.sourceMembers[j].v.lastRetrievedFromServer}}

\* C28: on a tracker that init has initialised, after any sequence of
\* writeSourceMembers and updateSourceTracking calls with arbitrary source
\* members (one with an empty MemberName among them), every key of
\* sourceMembers maps to a member record, so getChangedElements completes
\* without error and returns exactly the members whose serverRevisionCounter
\* differs from lastRetrievedFromServer; the members passed to
\* updateSourceTracking are not among them.
C28_TrackerWellFormed ==
  contents.hasSourceMembers =>
    /\ \A i \in 1..Len(contents.sourceMembers) : contents.sourceMembers[i].v.defined
    /\ lastCall.op = "getChangedElements" =>
         /\ changedSeen.error = "none"
         /\ {changedSeen.elements[i].MemberName : i \in 1..Len(changedSeen.elements)}
              = ChangedNames
         /\ Len(changedSeen.elements) = Cardinality(ChangedNames)
    /\ lastCall.op = "updateSourceTracking" =>
         \A i \in 1..Len(lastCall.changes) :
           lastCall.changes[i].MemberName \notin ChangedNames

\* C29: for each username at most one MaxRevision instance is ever created,
\* and every getInstance call for that username returns that instance, also
\* when a second call starts while the creation of the first is awaited.
C29_OneInstancePerUser ==
  /\ \A i, j \in 1..Len(createdFor) : createdFor[i] = createdFor[j] => i = j
  /\ \A i, j \in 1..MaxGetCalls :
       (/\ getCalls[i].pc = "done" /\ getCalls[j].pc = "done"
        /\ getCalls[i].username = getCalls[j].username)
         => getCalls[i].returned = getCalls[j].returned

----------------------------------------------------------------------------
(* Properties of the resolver and of getChildren called on one path or     *)
(* component (specification SpecProbe)                                     *)

\* strategy (1) of resolveType for a type and a path
IsStrictFolderMatch(t, p) ==
  /\ t.strictDirectoryName
  /\ \E i \in 1..Len(p) : p[i] = <<t.directoryName>>
  /\ ~t.inFolder \/ parentName(p) # <<t.directoryName>>

\* C23: resolveType returns the result of the first strategy that yields a
\* type; whenever some strict-directory type satisfies (1) for the path, the
\* type returned satisfies (1), otherwise the type is what strategies (2),
\* (3) and (4) give, in this order.
C23_FirstStrategyWins ==
  probed.op = "resolveType" =>
    IF \E i \in 1..Len(RegistryOrder) : IsStrictFolderMatch(RegistryOrder[i], probed.path)
      THEN IsStrictFolderMatch(probed.type, probed.path)
      ELSE probed.type =
             OrElse(OrElse(MetaXmlType(parseMetadataXml(probed.path)),
                           FolderType(parseAsFolderMetadataXml(probed.path))),
                    getTypeBySuffix(extName(probed.path)))

\* C24: when a type resolves and the path is not a denied metadata xml,
\* resolveComponent returns nothing without calling the adapter exactly when
\* isResolvingSource is false, the extension of the file is a registered
\* suffix and allowMetadataWithContent() of the adapter is false; in every
\* other case it dispatches to the adapter.
C24_ShortCircuit ==
  (/\ probed.op = "resolveComponent"
   /\ probed.type # NoType
   /\ ~(isMetadata(probed.path) /\ denies(probed.path, probed.denied)))
    => (~probed.dispatched <=>
          (/\ ~probed.isResolvingSource
           /\ getTypeBySuffix(extName(probed.path)) # NoType
           /\ ~allowMetadataWithContent(probed.type)))

\* C25: resolveDirectoryAsComponent(dir) is true exactly when a type resolves
\* for dir, the type has no children, the path has a segment equal to the
\* directoryName of the type, and the path from that segment to its end has
\* at least 2 segments, 3 for an inFolder type.
C25_DirectoryAsComponent ==
  probed.op = "resolveDirectoryAsComponent" =>
    (probed.answer <=>
       /\ probed.type # NoType
       /\ probed.type.children = <<>>
       /\ \E i \in 1..Len(probed.path) :
            /\ probed.path[i] = <<probed.type.directoryName>>
            /\ Len(probed.path) - i + 1 >= (IF probed.type.inFolder THEN 3 ELSE 2))

\* a directory two below the folder of an inFolder type is one component,
\* the folder directly inside the type folder is walked
C25_Witness ==
  /\ probed.op = "resolveDirectoryAsComponent"
  /\ probed.type.inFolder
  /\ Len(probed.path) = 3
  /\ probed.answer

\* the -meta.xml files under the content of the component probed whose
\* suffix is a key of type.children.suffixes
ChildXmls ==
  {f \in {walk(probed.of.content, probed.denied, probed.withBad)[i] :
            i \in 1..Len(walk(probed.of.content, probed.denied, probed.withBad))} :
     /\ parseMetadataXml(f).ok
     /\ ChildTypeBySuffix(probed.of.type, parseMetadataXml(f).suffix) # NoType}

\* C26: getChildren of a parentless component whose type has children and
\* whose content is a directory returns exactly one child per -meta.xml file
\* under content whose suffix is a key of type.children.suffixes and no child
\* for any other file; each child has the mapped child type, that file as
\* its xml and the component as its parent; getChildren of a child is empty.
C26_ChildrenBySuffix ==
  probed.op = "getChildren" =>
    /\ (/\ probed.of.parent = <<>> /\ probed.of.type.children # <<>>
        /\ probed.of.content # <<>>) =>
         /\ {probed.components[i].xml : i \in 1..Len(probed.components)} = ChildXmls
         /\ Len(probed.components) = Cardinality(ChildXmls)
         /\ \A i \in 1..Len(probed.components) :
              /\ probed.components[i].type =
                   ChildTypeBySuffix(probed.of.type,
                                     parseMetadataXml(probed.components[i].xml).suffix)
              /\ probed.components[i].parent = <<probed.of>>
    /\ probed.of.parent # <<>> => probed.components = <<>>

----------------------------------------------------------------------------
(* Properties of the merged conversion (specification SpecTransformer)     *)

\* where a merged conversion has to write source: the same position under
\* mergeWith.content for a file of a content directory, mergeWith.content
\* for a single content file
MergedContentOutput(c, mergeWith, source) ==
  IF isDirectory(c.content)
    THEN PathText(mergeWith.content \o SubSeq(source, Len(c.content) + 1, Len(source)))
    ELSE PathText(mergeWith.content)

\* the write instructions of conversion w target the files of mergeWith
TargetsMergeComponent(w, mergeWith) ==
  /\ \A i \in 1..Len(w.format.writeInfos) :
       w.format.writeInfos[i].source # w.format.component.xml =>
         w.format.writeInfos[i].output
           = MergedContentOutput(w.format.component, mergeWith, w.format.writeInfos[i].source)
  /\ w.format.component.xml # <<>> => XmlOutput(w) = PathText(mergeWith.xml)

\* C27: when toSourceFormat is given a mergeWith component, every write
\* instruction targets the files of the merge component: a single content
\* file goes to mergeWith.content, a file inside a content directory to the
\* same relative position under mergeWith.content, and the xml to exactly
\* mergeWith.xml, whether or not the converted component has content.
C27_MergeTargets ==
  \A i \in 1..Len(writerFormats) :
    writerFormats[i].merged => TargetsMergeComponent(writerFormats[i], original)

====
